---- MODULE Spec2Model ----
(***************************************************************************)
(* nodecrypt: the three password-based encryptors (Encryptor,              *)
(* JasyptEncryptor, JasyptStrongEncryptor) of src/src/encryptor.ts and     *)
(* src/src/jasypt-compat.ts.                                               *)
(*                                                                         *)
(* Strings are sequences of UTF-16 code units, buffers are sequences of    *)
(* bytes 0..255.  The text conversions the code performs (UTF-8 encoding   *)
(* and decoding, Base64 encoding and decoding) are computed as Node        *)
(* computes them.  The primitives of node:crypto are library code; they    *)
(* are modelled by small functions of the same shape (same argument        *)
(* checks, same output lengths, same block/padding/tag structure) under    *)
(* the perfect-cryptography reading: events of cryptographically           *)
(* negligible probability (a repeated random draw, a digest collision, a   *)
(* forged tag) do not happen, while events of ordinary probability (valid  *)
(* padding after decrypting with an unrelated key) do.                     *)
(***************************************************************************)
EXTENDS Integers, Sequences, FiniteSets, TLC

\* ------------------------------------------------------------------ text

Min(a, b) == IF a < b THEN a ELSE b

Max(a, b) == IF a > b THEN a ELSE b

\* Buffer.subarray(start, end) with 0-based, end-exclusive, clamped indices;
\* a negative index counts from the end.
subarray(buf, start, end) ==
  LET n  == Len(buf)
      s0 == IF start < 0 THEN Max(n + start, 0) ELSE Min(start, n)
      e0 == IF end < 0 THEN Max(n + end, 0) ELSE Min(end, n)
  IN  IF e0 <= s0 THEN <<>> ELSE SubSeq(buf, s0 + 1, e0)

IsHighSurrogate(c) == c >= 55296 /\ c <= 56319

IsLowSurrogate(c) == c >= 56320 /\ c <= 57343

RECURSIVE Utf8EncodeFrom(_, _)
\* Buffer.from(s, 'utf-8') / cipher.update(s, 'utf-8'): the UTF-8 bytes of
\* the code units s[i..]; an unpaired surrogate becomes U+FFFD (EF BF BD).
Utf8EncodeFrom(s, i) ==
  IF i > Len(s) THEN <<>>
  ELSE LET c == s[i] IN
    IF c < 128 THEN <<c>> \o Utf8EncodeFrom(s, i + 1)
    ELSE IF c < 2048
      THEN <<192 + (c \div 64), 128 + (c % 64)>> \o Utf8EncodeFrom(s, i + 1)
    ELSE IF IsHighSurrogate(c) /\ i < Len(s) /\ IsLowSurrogate(s[i + 1])
      THEN LET cp == 65536 + (c - 55296) * 1024 + (s[i + 1] - 56320)
           IN  <<240 + (cp \div 262144), 128 + ((cp \div 4096) % 64),
                 128 + ((cp \div 64) % 64), 128 + (cp % 64)>>
               \o Utf8EncodeFrom(s, i + 2)
    ELSE IF IsHighSurrogate(c) \/ IsLowSurrogate(c)
      THEN <<239, 191, 189>> \o Utf8EncodeFrom(s, i + 1)
    ELSE <<224 + (c \div 4096), 128 + ((c \div 64) % 64), 128 + (c % 64)>>
         \o Utf8EncodeFrom(s, i + 1)

\* The longest stretch of code units encoded in one run.
Utf8Run == 24

RECURSIVE Utf8Encode(_)
\* The bytes of a long string are the bytes of its two parts, cut where no
\* surrogate pair is split.
Utf8Encode(s) ==
  IF Len(s) <= Utf8Run THEN Utf8EncodeFrom(s, 1)
  ELSE LET mid == Len(s) \div 2
           cut == IF IsHighSurrogate(s[mid]) /\ IsLowSurrogate(s[mid + 1])
                    THEN mid + 1
                  ELSE mid
           head == Utf8Encode(SubSeq(s, 1, cut))
       IN  IF Len(head) < cut THEN <<>>
           ELSE head \o Utf8Encode(SubSeq(s, cut + 1, Len(s)))

IsCont(b, i) == i <= Len(b) /\ b[i] >= 128 /\ b[i] <= 191

\* The admissible range of the first continuation byte after lead byte l.
FirstContOk(b, i, l) ==
  /\ IsCont(b, i)
  /\ (l = 224 => b[i] >= 160)
  /\ (l = 237 => b[i] <= 159)
  /\ (l = 240 => b[i] >= 144)
  /\ (l = 244 => b[i] <= 143)

RECURSIVE Utf8DecodeFrom(_, _)
\* buf.toString('utf-8'): well-formed sequences decode to their code units,
\* every maximal ill-formed subpart decodes to one U+FFFD.
Utf8DecodeFrom(b, i) ==
  IF i > Len(b) THEN <<>>
  ELSE LET l == b[i]
           need == IF l < 128 THEN 0
                   ELSE IF l >= 194 /\ l <= 223 THEN 1
                   ELSE IF l >= 224 /\ l <= 239 THEN 2
                   ELSE IF l >= 240 /\ l <= 244 THEN 3
                   ELSE 4
           have == IF need = 0 \/ need = 4 \/ ~FirstContOk(b, i + 1, l) THEN 0
                   ELSE IF need = 1 \/ ~IsCont(b, i + 2) THEN 1
                   ELSE IF need = 2 \/ ~IsCont(b, i + 3) THEN 2
                   ELSE 3
       IN
    IF need = 0 THEN <<l>> \o Utf8DecodeFrom(b, i + 1)
    ELSE IF need = 4 \/ have < need
      THEN <<65533>> \o Utf8DecodeFrom(b, i + 1 + have)
    ELSE IF need = 1
      THEN <<(l - 192) * 64 + (b[i + 1] - 128)>> \o Utf8DecodeFrom(b, i + 2)
    ELSE IF need = 2
      THEN <<(l - 224) * 4096 + (b[i + 1] - 128) * 64 + (b[i + 2] - 128)>>
           \o Utf8DecodeFrom(b, i + 3)
    ELSE LET cp == (l - 240) * 262144 + (b[i + 1] - 128) * 4096
                   + (b[i + 2] - 128) * 64 + (b[i + 3] - 128)
             v  == cp - 65536
         IN  <<55296 + (v \div 1024), 56320 + (v % 1024)>>
             \o Utf8DecodeFrom(b, i + 4)

\* buffer.toString('latin1') in place of 'utf-8': one code unit per byte.
Utf8Decode_latin1(b) == b

RECURSIVE Utf8Decode(_)
\* The code units of a long buffer are those of its two parts, cut before a
\* byte that is not a continuation byte: such a byte starts a sequence of
\* its own whatever comes before it.
Utf8Decode(b) ==
  IF Len(b) <= Utf8Run THEN Utf8DecodeFrom(b, 1)
  ELSE LET mid  == Len(b) \div 2
           cuts == {k \in mid..(Len(b) - 1) : ~IsCont(b, k + 1)}
       IN  IF cuts = {} THEN Utf8DecodeFrom(b, 1)
           ELSE LET cut  == CHOOSE k \in cuts : \A l \in cuts : k <= l
                    head == Utf8Decode(SubSeq(b, 1, cut))
                IN  IF Len(head) > cut THEN <<>>
                    ELSE head \o Utf8Decode(SubSeq(b, cut + 1, Len(b)))

\* The character of the standard Base64 alphabet for the sextet v.
B64Char(v) ==
  IF v < 26 THEN 65 + v
  ELSE IF v < 52 THEN 97 + (v - 26)
  ELSE IF v < 62 THEN 48 + (v - 52)
  ELSE IF v = 62 THEN 43
  ELSE 47

\* The sextet of a character, -1 when it is not a Base64 character (the
\* URL-safe '-' and '_' are accepted by the decoder).
unbase64(c) ==
  IF c >= 65 /\ c <= 90 THEN c - 65
  ELSE IF c >= 97 /\ c <= 122 THEN c - 97 + 26
  ELSE IF c >= 48 /\ c <= 57 THEN c - 48 + 52
  ELSE IF c = 43 \/ c = 45 THEN 62
  ELSE IF c = 47 \/ c = 95 THEN 63
  ELSE 0 - 1

\* buf.toString('base64'): three bytes give four characters, a final group
\* of one or two bytes is padded with '=' (code 61).
Base64Encode(b) ==
  LET n == Len(b)
      At(k) == IF k <= n THEN b[k] ELSE 0
  IN  [c \in 1..(4 * ((n + 2) \div 3)) |->
        LET q   == 3 * ((c - 1) \div 4) + 1
            pos == (c - 1) % 4
        IN  IF pos = 0 THEN B64Char(At(q) \div 4)
            ELSE IF pos = 1
              THEN B64Char((At(q) % 4) * 16 + (At(q + 1) \div 16))
            ELSE IF pos = 2
              THEN IF q + 1 > n THEN 61
                   ELSE B64Char((At(q + 1) % 16) * 4 + (At(q + 2) \div 64))
            ELSE IF q + 2 > n THEN 61 ELSE B64Char(At(q + 2) % 64)]

\* The sextets of the Base64 characters of s up to the first '='; characters
\* outside the alphabet are skipped.
Sextets(s) ==
  LET stop  == IF \E i \in 1..Len(s) : s[i] = 61
                 THEN CHOOSE i \in 1..Len(s) :
                        s[i] = 61 /\ \A j \in 1..(i - 1) : s[j] # 61
                 ELSE Len(s) + 1
      IsLegal(c) == unbase64(c) >= 0
      legal == SelectSeq(SubSeq(s, 1, stop - 1), IsLegal)
  IN  [k \in 1..Len(legal) |-> unbase64(legal[k])]

\* Four sextets give three bytes; a final group of two or three sextets
\* gives one or two bytes, a single left-over sextet gives none.
SextetsToBytes(v) ==
  LET rem == Len(v) % 4
      n   == 3 * (Len(v) \div 4) + (IF rem >= 2 THEN rem - 1 ELSE 0)
  IN  [k \in 1..n |->
        LET q   == 4 * ((k - 1) \div 3) + 1
            pos == (k - 1) % 3
        IN  IF pos = 0 THEN v[q] * 4 + (v[q + 1] \div 16)
            ELSE IF pos = 1 THEN (v[q + 1] % 16) * 16 + (v[q + 2] \div 4)
            ELSE (v[q + 2] % 4) * 64 + v[q + 3]]

\* Buffer.from(s, 'base64'): never throws.
Base64Decode(s) == SextetsToBytes(Sextets(s))

\* ------------------------------------------------------- node:crypto

\* An outcome of a library call: err is "" on success, else the message of
\* the error thrown; out is the buffer returned.
Returned(out) == [err |-> "", out |-> out]

Raised(msg) == [err |-> msg, out |-> <<>>]

RECURSIVE Checksum(_, _, _, _)
\* The sum over j in lo..hi of (data[j] + 1) * j^power, modulo the prime
\* 257.  The two sums of power 1 and 2 together change whenever one or two
\* bytes of data change.
Checksum(data, power, lo, hi) ==
  IF lo > hi THEN 0
  ELSE IF lo = hi
    THEN ((data[lo] + 1) * (IF power = 1 THEN lo ELSE lo * lo)) % 257
  ELSE LET mid == (lo + hi) \div 2
       IN  (Checksum(data, power, lo, mid)
            + Checksum(data, power, mid + 1, hi)) % 257

\* The stand-in of the keyed primitives: len bytes that are a function of
\* all of data, in the family named by tweak.  Byte i does not depend on
\* len.
Digest(data, len, tweak) ==
  LET n  == Len(data)
      s1 == Checksum(data, 1, 1, n)
      s2 == Checksum(data, 2, 1, n)
  IN  [i \in 1..len |->
        (tweak + 29 * i + 5 * n + s1 * (2 * i + 1) + s2 * i
         + (IF n = 0 THEN 0 ELSE 3 * data[((i - 1) % n) + 1])) % 256]
      \o <<>>

\* crypto.randomBytes(size): seed names the draw of the generator.
randomBytes(size, seed) ==
  IF size < 0 THEN Raised("The value of \"size\" is out of range")
  ELSE Returned([i \in 1..size |-> (seed * 83 + i * 7 + 11) % 256] \o <<>>)

\* crypto.pbkdf2Sync(password, salt, iterations, keylen, 'sha256'): byte i
\* of the output does not depend on keylen.
pbkdf2Sync(password, salt, iterations, keylen) ==
  IF iterations < 1 THEN Raised("The value of \"iterations\" is out of range")
  ELSE IF keylen < 0 THEN Raised("The value of \"keylen\" is out of range")
  ELSE LET data == password \o <<Len(password)>> \o salt
                   \o <<iterations % 256, (iterations \div 256) % 256>>
       IN  Returned(Digest(data, keylen, 7))

\* crypto.createHash('md5').update(data).digest(): 16 bytes.  The data is
\* brought to 16 bytes (padded with its length, or folded), then shifted by
\* one byte with a new last byte; on 16-byte inputs this is a permutation,
\* so repeated hashing keeps distinct digests distinct.
md5(data) ==
  LET n == Len(data)
      b == IF n = 16 THEN data
           ELSE IF n < 16 THEN data \o [i \in 1..(16 - n) |-> n]
           ELSE Digest(data, 16, 91)
  IN  SubSeq(b, 2, 16)
      \o <<(3 * b[1] + 5 * b[2] + 7 * b[9] + b[16] + 113) % 256>>

\* The key and IV lengths crypto.createCipheriv / createDecipheriv accept.
KeyLength(algorithm) == IF algorithm = "des-cbc" THEN 8 ELSE 32

IvLength(algorithm) ==
  IF algorithm = "des-cbc" THEN 8
  ELSE IF algorithm = "aes-256-cbc" THEN 16
  ELSE 12

BlockSize(algorithm) ==
  IF algorithm = "des-cbc" THEN 8
  ELSE IF algorithm = "aes-256-cbc" THEN 16
  ELSE 1

\* crypto.createCipheriv(algorithm, key, iv) and createDecipheriv: the IV is
\* checked first (a GCM IV may have any positive length), then the key.
createCipheriv(algorithm, key, iv) ==
  IF Len(iv) = 0 THEN "Invalid initialization vector"
  ELSE IF algorithm # "aes-256-gcm" /\ Len(iv) # IvLength(algorithm)
    THEN "Invalid initialization vector"
  ELSE IF Len(key) # KeyLength(algorithm) THEN "Invalid key length"
  ELSE ""

\* The key byte the block cipher adds at position i of a block of size bs.
KeyByte(key, i, bs) ==
  (key[i] + (IF Len(key) >= i + bs THEN 3 * key[i + bs] ELSE 0) + i) % 256

\* Padding that adds nothing to data that already fills whole blocks.
Pad_aligned(data, bs) ==
  LET p == (bs - (Len(data) % bs)) % bs IN data \o [i \in 1..p |-> p]

\* Standard block padding: pad to the next full block with bytes that hold
\* the pad length.
Pad(data, bs) ==
  LET p == bs - (Len(data) % bs) IN data \o [i \in 1..p |-> p]

\* cipher.update(data) + cipher.final() in CBC mode: each block is chained
\* with the previous ciphertext block (the IV for the first).
CbcEncrypt(bs, key, iv, data) ==
  LET padded == Pad(data, bs)
      Ct[n \in 1..Len(padded)] ==
        LET i    == ((n - 1) % bs) + 1
            prev == IF n <= bs THEN iv[i] ELSE Ct[n - bs]
        IN  (padded[n] + prev + KeyByte(key, i, bs)) % 256
  IN  [n \in 1..Len(padded) |-> Ct[n]] \o <<>>

\* decipher.update(ct) + decipher.final() in CBC mode: final() throws when
\* the data is not whole blocks or the padding is not well formed.
CbcDecrypt(bs, key, iv, ct) ==
  IF Len(ct) = 0 \/ Len(ct) % bs # 0 THEN Raised("wrong final block length")
  ELSE LET pt == [n \in 1..Len(ct) |->
                   LET i    == ((n - 1) % bs) + 1
                       prev == IF n <= bs THEN iv[i] ELSE ct[n - bs]
                   IN  (ct[n] + 512 - prev - KeyByte(key, i, bs)) % 256]
           p  == pt[Len(ct)]
       IN  IF p = 0 \/ p > bs THEN Raised("bad decrypt")
           ELSE IF \E n \in (Len(ct) - p + 1)..Len(ct) : pt[n] # p
             THEN Raised("bad decrypt")
           ELSE Returned(SubSeq(pt, 1, Len(ct) - p))

\* cipher.update(data) + cipher.final() in GCM mode: the data plus a key
\* stream made from key and IV, as many bytes out as in.
GcmEncrypt(key, iv, data) ==
  LET stream == Digest(key \o iv, Len(data), 101)
  IN  [n \in 1..Len(data) |-> (data[n] + stream[n]) % 256] \o <<>>

\* cipher.getAuthTag(): the 16-byte tag over key, IV and ciphertext.
getAuthTag(key, iv, ct) == Digest(key \o iv \o <<Len(iv)>> \o ct, 16, 53)

\* The same calls on a cipher mode without authentication: the tag is not
\* looked at.
GcmDecrypt_unauthenticated(key, iv, ct, tag) ==
  LET stream == Digest(key \o iv, Len(ct), 101)
  IN  Returned([n \in 1..Len(ct) |-> (ct[n] + 256 - stream[n]) % 256] \o <<>>)

\* decipher.setAuthTag(tag) + update(ct) + final() in GCM mode: a tag of
\* length 4, 8 or 12..16 is compared with the prefix of the computed tag.
GcmDecrypt(key, iv, ct, tag) ==
  IF ~(Len(tag) \in {4, 8, 12, 13, 14, 15, 16})
    THEN Raised("Invalid authentication tag length")
  ELSE IF tag # SubSeq(getAuthTag(key, iv, ct), 1, Len(tag))
    THEN Raised("Unsupported state or unable to authenticate data")
  ELSE LET stream == Digest(key \o iv, Len(ct), 101)
       IN  Returned([n \in 1..Len(ct) |-> (ct[n] + 256 - stream[n]) % 256]
                    \o <<>>)

\* ------------------------------------------------------------ results

\* The outcome of a method call: err is "" and val the returned string, or
\* err is the leading message of the Error thrown and cause the message of
\* the error it wraps ("" when it wraps none).  calls lists, in order, the
\* library calls the method made.
Return(val, calls) == [err |-> "", cause |-> "", val |-> val, calls |-> calls]

Throw(msg, calls) == [err |-> msg, cause |-> "", val |-> <<>>, calls |-> calls]

\* catch (error) { throw new Error(`Decryption failed: ${error}`) }
DecryptionFailed(inner, calls) ==
  [err |-> "Decryption failed", cause |-> inner, val |-> <<>>, calls |-> calls]

\* options.name ?? dflt
Option(options, name, dflt) ==
  IF name \in DOMAIN options THEN options[name] ELSE dflt

\* -------------------------------------------------------------- utils

\* 'ENC('
ENC_PREFIX == <<69, 78, 67, 40>>

\* ')'
ENC_SUFFIX == <<41>>

\* A value of type string | null | undefined.
Str(s) == [type |-> "string", str |-> s]

Null == [type |-> "null", str |-> <<>>]

Undefined == [type |-> "undefined", str |-> <<>>]

\* The code units String.prototype.trim removes: white space and line
\* terminators.
WhiteSpace ==
  {9, 10, 11, 12, 13, 32, 160, 5760, 8232, 8233, 8239, 8287, 12288, 65279}
  \cup (8192..8202)

\* str.trim()
trim(str) ==
  LET keep == {i \in 1..Len(str) : str[i] \notin WhiteSpace}
  IN  IF keep = {} THEN <<>>
      ELSE SubSeq(str, CHOOSE i \in keep : \A j \in keep : i <= j,
                       CHOOSE i \in keep : \A j \in keep : i >= j)

\* str.startsWith(search)
startsWith(str, search) ==
  Len(str) >= Len(search) /\ SubSeq(str, 1, Len(search)) = search

\* str.endsWith(search)
endsWith(str, search) ==
  /\ Len(str) >= Len(search)
  /\ SubSeq(str, Len(str) - Len(search) + 1, Len(str)) = search

\* str.slice(start, end): the indices are clamped as those of subarray are.
slice(str, start, end) == subarray(str, start, end)

\* isEncrypted that tests the value as it is given.
isEncrypted_untrimmed(value) ==
  IF value.type # "string" \/ value.str = <<>> THEN FALSE
  ELSE startsWith(value.str, ENC_PREFIX) /\ endsWith(value.str, ENC_SUFFIX)

\* isEncrypted(value): !value holds of null, undefined and ''.
isEncrypted(value) ==
  IF value.type # "string" \/ value.str = <<>> THEN FALSE
  ELSE LET trimmed == trim(value.str)
       IN  startsWith(trimmed, ENC_PREFIX) /\ endsWith(trimmed, ENC_SUFFIX)

\* The match of ENC_PATTERN, /ENC\(([^)]+)\)/, tried at position i of input:
\* the position of its last character, 0 when it does not match there.
\* After 'ENC(' the pattern takes every character up to the next ')', and
\* there must be one at least.
MatchEnd(input, i) ==
  IF ~(/\ i + Len(ENC_PREFIX) - 1 <= Len(input)
       /\ SubSeq(input, i, i + Len(ENC_PREFIX) - 1) = ENC_PREFIX) THEN 0
  ELSE LET closes == {j \in (i + 4)..Len(input) : input[j] = 41}
       IN  IF closes = {} THEN 0
           ELSE LET j == CHOOSE j \in closes : \A k \in closes : j <= k
                IN  IF j = i + 4 THEN 0 ELSE j

\* result[key] = value on an object literal: the key '__proto__' names the
\* accessor of Object.prototype, whose setter ignores a string and adds no
\* property.
SetProperty(result, key, value) ==
  IF key = "__proto__" THEN result
  ELSE [k \in DOMAIN result \cup {key} |->
          IF k = key THEN value ELSE result[k]]

\* ------------------------------------------------------------ Encryptor

\* new Encryptor(password, options): err is "" and self the instance, or
\* the message thrown.
Encryptor_constructor(password, options) ==
  IF password = <<>>
    THEN [err |-> "Password cannot be empty", self |-> <<>>]
  ELSE [err |-> "",
        self |-> [variant    |-> "Encryptor",
                  password   |-> Utf8Encode(password),
                  iterations |-> Option(options, "iterations", 10000),
                  saltSize   |-> Option(options, "saltSize", 16),
                  keySize    |-> Option(options, "keySize", 32)]]

\* The key derived from the salt alone.
Encryptor_deriveKey_nopassword(self, salt) ==
  pbkdf2Sync(<<>>, salt, self.iterations, self.keySize)

Encryptor_deriveKey(self, salt) ==
  pbkdf2Sync(self.password, salt, self.iterations, self.keySize)

\* encrypt that writes the IV in front of the salt.
Encryptor_encrypt_ivfirst(self, plaintext, r1, r2) ==
  IF plaintext = <<>> THEN Throw("Plaintext cannot be empty", <<>>)
  ELSE LET salt == randomBytes(self.saltSize, r1) IN
  IF salt.err # "" THEN Throw(salt.err, <<"randomBytes">>)
  ELSE LET iv  == randomBytes(12, r2)
           key == Encryptor_deriveKey(self, salt.out)
       IN
  IF key.err # ""
    THEN Throw(key.err, <<"randomBytes", "randomBytes", "pbkdf2Sync">>)
  ELSE LET bad == createCipheriv("aes-256-gcm", key.out, iv.out) IN
  IF bad # ""
    THEN Throw(bad, <<"randomBytes", "randomBytes", "pbkdf2Sync",
                      "createCipheriv">>)
  ELSE LET encrypted == GcmEncrypt(key.out, iv.out, Utf8Encode(plaintext))
           tag       == getAuthTag(key.out, iv.out, encrypted)
           combined  == iv.out \o salt.out \o encrypted \o tag
       IN  Return(Base64Encode(combined),
                  <<"randomBytes", "randomBytes", "pbkdf2Sync",
                    "createCipheriv", "update", "final", "getAuthTag",
                    "base64">>)

\* encrypt(plaintext); r1 and r2 name the two draws of the generator.
Encryptor_encrypt(self, plaintext, r1, r2) ==
  IF plaintext = <<>> THEN Throw("Plaintext cannot be empty", <<>>)
  ELSE LET salt == randomBytes(self.saltSize, r1) IN
  IF salt.err # "" THEN Throw(salt.err, <<"randomBytes">>)
  ELSE LET iv  == randomBytes(12, r2)
           key == Encryptor_deriveKey(self, salt.out)
       IN
  IF key.err # ""
    THEN Throw(key.err, <<"randomBytes", "randomBytes", "pbkdf2Sync">>)
  ELSE LET bad == createCipheriv("aes-256-gcm", key.out, iv.out) IN
  IF bad # ""
    THEN Throw(bad, <<"randomBytes", "randomBytes", "pbkdf2Sync",
                      "createCipheriv">>)
  ELSE LET encrypted == GcmEncrypt(key.out, iv.out, Utf8Encode(plaintext))
           tag       == getAuthTag(key.out, iv.out, encrypted)
           combined  == salt.out \o iv.out \o encrypted \o tag
       IN  Return(Base64Encode(combined),
                  <<"randomBytes", "randomBytes", "pbkdf2Sync",
                    "createCipheriv", "update", "final", "getAuthTag",
                    "base64">>)

\* decrypt with the tag taken as the 12 bytes that follow the ciphertext.
Encryptor_decrypt_shorttag(self, encoded) ==
  IF encoded = <<>> THEN Throw("Encoded value cannot be empty", <<>>)
  ELSE LET combined   == Base64Decode(encoded)
           salt       == subarray(combined, 0, self.saltSize)
           iv         == subarray(combined, self.saltSize, self.saltSize + 12)
           tag        == subarray(combined, Len(combined) - 16,
                                  Len(combined) - 4)
           ciphertext == subarray(combined, self.saltSize + 12,
                                  Len(combined) - 16)
           key        == Encryptor_deriveKey(self, salt)
       IN
  IF key.err # "" THEN DecryptionFailed(key.err, <<"base64", "pbkdf2Sync">>)
  ELSE LET bad == createCipheriv("aes-256-gcm", key.out, iv) IN
  IF bad # ""
    THEN DecryptionFailed(bad, <<"base64", "pbkdf2Sync", "createDecipheriv">>)
  ELSE LET decrypted == GcmDecrypt(key.out, iv, ciphertext, tag) IN
  IF decrypted.err # ""
    THEN DecryptionFailed(decrypted.err,
           <<"base64", "pbkdf2Sync", "createDecipheriv", "setAuthTag",
             "update", "final">>)
  ELSE Return(Utf8Decode(decrypted.out),
              <<"base64", "pbkdf2Sync", "createDecipheriv", "setAuthTag",
                "update", "final">>)

\* decrypt that returns '' for an empty ciphertext slice without looking at
\* the tag.
Encryptor_decrypt_skipempty(self, encoded) ==
  IF encoded = <<>> THEN Throw("Encoded value cannot be empty", <<>>)
  ELSE LET combined   == Base64Decode(encoded)
           salt       == subarray(combined, 0, self.saltSize)
           iv         == subarray(combined, self.saltSize, self.saltSize + 12)
           tag        == subarray(combined, Len(combined) - 16, Len(combined))
           ciphertext == subarray(combined, self.saltSize + 12,
                                  Len(combined) - 16)
           key        == Encryptor_deriveKey(self, salt)
       IN
  IF key.err # "" THEN DecryptionFailed(key.err, <<"base64", "pbkdf2Sync">>)
  ELSE LET bad == createCipheriv("aes-256-gcm", key.out, iv) IN
  IF bad # ""
    THEN DecryptionFailed(bad, <<"base64", "pbkdf2Sync", "createDecipheriv">>)
  ELSE IF ciphertext = <<>>
    THEN Return(<<>>, <<"base64", "pbkdf2Sync", "createDecipheriv">>)
  ELSE LET decrypted == GcmDecrypt(key.out, iv, ciphertext, tag) IN
  IF decrypted.err # ""
    THEN DecryptionFailed(decrypted.err,
           <<"base64", "pbkdf2Sync", "createDecipheriv", "setAuthTag",
             "update", "final">>)
  ELSE Return(Utf8Decode(decrypted.out),
              <<"base64", "pbkdf2Sync", "createDecipheriv", "setAuthTag",
                "update", "final">>)

Encryptor_decrypt(self, encoded) ==
  IF encoded = <<>> THEN Throw("Encoded value cannot be empty", <<>>)
  ELSE LET combined   == Base64Decode(encoded)
           salt       == subarray(combined, 0, self.saltSize)
           iv         == subarray(combined, self.saltSize, self.saltSize + 12)
           tag        == subarray(combined, Len(combined) - 16, Len(combined))
           ciphertext == subarray(combined, self.saltSize + 12,
                                  Len(combined) - 16)
           key        == Encryptor_deriveKey(self, salt)
       IN
  IF key.err # "" THEN DecryptionFailed(key.err, <<"base64", "pbkdf2Sync">>)
  ELSE LET bad == createCipheriv("aes-256-gcm", key.out, iv) IN
  IF bad # ""
    THEN DecryptionFailed(bad, <<"base64", "pbkdf2Sync", "createDecipheriv">>)
  ELSE LET decrypted == GcmDecrypt(key.out, iv, ciphertext, tag) IN
  IF decrypted.err # ""
    THEN DecryptionFailed(decrypted.err,
           <<"base64", "pbkdf2Sync", "createDecipheriv", "setAuthTag",
             "update", "final">>)
  ELSE Return(Utf8Decode(decrypted.out),
              <<"base64", "pbkdf2Sync", "createDecipheriv", "setAuthTag",
                "update", "final">>)

\* ------------------------------------------------------ JasyptEncryptor

SALT_SIZE == 8

\* The constructor without the check of the password.
Jasypt_constructor_nocheck(password, options) ==
  [err |-> "",
   self |-> [variant    |-> "JasyptEncryptor",
             password   |-> password,
             iterations |-> Option(options, "iterations", 1000),
             saltSize   |-> SALT_SIZE,
             keySize    |-> 8]]

Jasypt_constructor(password, options) ==
  IF password = <<>>
    THEN [err |-> "Password cannot be empty", self |-> <<>>]
  ELSE [err |-> "",
        self |-> [variant    |-> "JasyptEncryptor",
                  password   |-> password,
                  iterations |-> Option(options, "iterations", 1000),
                  saltSize   |-> SALT_SIZE,
                  keySize    |-> 8]]

\* A loop that stops after its first round.
Rehash_once(result, i, iterations) ==
  IF i >= iterations THEN result ELSE md5(result)

RECURSIVE Rehash(_, _, _)
\* for (let i = 1; i < iterations; i++) result = md5(result)
\* The rounds i..iterations-1 are run as the rounds i..mid-1 followed by the
\* rounds mid..iterations-1; the test on the length of the digest makes the
\* first half be computed before the second half starts.
Rehash(result, i, iterations) ==
  IF i >= iterations THEN result
  ELSE IF i + 1 = iterations THEN md5(result)
  ELSE LET mid  == i + ((iterations - i) \div 2)
           half == Rehash(result, i, mid)
       IN  IF Len(half) # 16 THEN half ELSE Rehash(half, mid, iterations)

\* The key and IV derived from the salt alone.
Jasypt_deriveKeyAndIv_nopassword(self, salt) ==
  LET result == Rehash(md5(salt), 1, self.iterations)
  IN  [key |-> subarray(result, 0, 8), iv |-> subarray(result, 8, 16)]

\* The derivation with a loop that starts at i = 0.
Jasypt_deriveKeyAndIv_fromzero(self, salt) ==
  LET data   == Utf8Encode(self.password) \o salt
      result == Rehash(md5(data), 0, self.iterations)
  IN  [key |-> subarray(result, 0, 8), iv |-> subarray(result, 8, 16)]

Jasypt_deriveKeyAndIv(self, salt) ==
  LET data   == Utf8Encode(self.password) \o salt
      result == Rehash(md5(data), 1, self.iterations)
  IN  [key |-> subarray(result, 0, 8), iv |-> subarray(result, 8, 16)]

Jasypt_encrypt(self, plaintext, r1) ==
  IF plaintext = <<>> THEN Throw("Plaintext cannot be empty", <<>>)
  ELSE LET salt == randomBytes(SALT_SIZE, r1)
           d    == Jasypt_deriveKeyAndIv(self, salt.out)
           bad  == createCipheriv("des-cbc", d.key, d.iv)
       IN
  IF bad # "" THEN Throw(bad, <<"randomBytes", "md5", "createCipheriv">>)
  ELSE LET encrypted == CbcEncrypt(8, d.key, d.iv, Utf8Encode(plaintext))
           combined  == salt.out \o encrypted
       IN  Return(Base64Encode(combined),
                  <<"randomBytes", "md5", "createCipheriv", "update",
                    "final", "base64">>)

Jasypt_decrypt(self, encoded) ==
  IF encoded = <<>> THEN Throw("Encoded value cannot be empty", <<>>)
  ELSE LET combined == Base64Decode(encoded) IN
  IF Len(combined) < 16
    THEN DecryptionFailed("Invalid Jasypt data", <<"base64">>)
  ELSE LET salt       == subarray(combined, 0, SALT_SIZE)
           ciphertext == subarray(combined, SALT_SIZE, Len(combined))
       IN
  IF Len(ciphertext) % 8 # 0
    THEN DecryptionFailed("Invalid Jasypt data", <<"base64">>)
  ELSE LET d   == Jasypt_deriveKeyAndIv(self, salt)
           bad == createCipheriv("des-cbc", d.key, d.iv)
       IN
  IF bad # ""
    THEN DecryptionFailed(bad, <<"base64", "md5", "createDecipheriv">>)
  ELSE LET decrypted == CbcDecrypt(8, d.key, d.iv, ciphertext) IN
  IF decrypted.err # ""
    THEN DecryptionFailed(decrypted.err,
           <<"base64", "md5", "createDecipheriv", "update", "final">>)
  ELSE Return(Utf8Decode(decrypted.out),
              <<"base64", "md5", "createDecipheriv", "update", "final">>)

\* ------------------------------------------------ JasyptStrongEncryptor

KEY_SIZE == 32

IV_SIZE == 16

JasyptStrong_constructor(password, options) ==
  IF password = <<>>
    THEN [err |-> "Password cannot be empty", self |-> <<>>]
  ELSE [err |-> "",
        self |-> [variant    |-> "JasyptStrongEncryptor",
                  password   |-> Utf8Encode(password),
                  iterations |-> Option(options, "iterations", 1000),
                  saltSize   |-> Option(options, "saltSize", 16),
                  keySize    |-> KEY_SIZE]]

\* The derivation with the IV taken from the front of the derived bytes and
\* the key from what follows.
JasyptStrong_deriveKeyAndIv_ivfirst(self, salt) ==
  LET derived == pbkdf2Sync(self.password, salt, self.iterations,
                            KEY_SIZE + IV_SIZE)
  IN  [err |-> derived.err,
       key |-> subarray(derived.out, IV_SIZE, Len(derived.out)),
       iv  |-> subarray(derived.out, 0, IV_SIZE)]

\* err is the message pbkdf2Sync throws, "" when it returns.
JasyptStrong_deriveKeyAndIv(self, salt) ==
  LET derived == pbkdf2Sync(self.password, salt, self.iterations,
                            KEY_SIZE + IV_SIZE)
  IN  [err |-> derived.err,
       key |-> subarray(derived.out, 0, KEY_SIZE),
       iv  |-> subarray(derived.out, KEY_SIZE, Len(derived.out))]

JasyptStrong_encrypt(self, plaintext, r1) ==
  IF plaintext = <<>> THEN Throw("Plaintext cannot be empty", <<>>)
  ELSE LET salt == randomBytes(self.saltSize, r1) IN
  IF salt.err # "" THEN Throw(salt.err, <<"randomBytes">>)
  ELSE LET d == JasyptStrong_deriveKeyAndIv(self, salt.out) IN
  IF d.err # "" THEN Throw(d.err, <<"randomBytes", "pbkdf2Sync">>)
  ELSE LET bad == createCipheriv("aes-256-cbc", d.key, d.iv) IN
  IF bad # ""
    THEN Throw(bad, <<"randomBytes", "pbkdf2Sync", "createCipheriv">>)
  ELSE LET encrypted == CbcEncrypt(16, d.key, d.iv, Utf8Encode(plaintext))
           combined  == salt.out \o encrypted
       IN  Return(Base64Encode(combined),
                  <<"randomBytes", "pbkdf2Sync", "createCipheriv", "update",
                    "final", "base64">>)

\* decrypt without the check that the ciphertext is whole blocks.
JasyptStrong_decrypt_anylength(self, encoded) ==
  IF encoded = <<>> THEN Throw("Encoded value cannot be empty", <<>>)
  ELSE LET combined == Base64Decode(encoded) IN
  IF Len(combined) < self.saltSize + 16
    THEN DecryptionFailed("Invalid data", <<"base64">>)
  ELSE LET salt       == subarray(combined, 0, self.saltSize)
           ciphertext == subarray(combined, self.saltSize, Len(combined))
           d          == JasyptStrong_deriveKeyAndIv(self, salt)
       IN
  IF d.err # "" THEN DecryptionFailed(d.err, <<"base64", "pbkdf2Sync">>)
  ELSE LET bad == createCipheriv("aes-256-cbc", d.key, d.iv) IN
  IF bad # ""
    THEN DecryptionFailed(bad, <<"base64", "pbkdf2Sync", "createDecipheriv">>)
  ELSE LET decrypted == CbcDecrypt(16, d.key, d.iv, ciphertext) IN
  IF decrypted.err # ""
    THEN DecryptionFailed(decrypted.err,
           <<"base64", "pbkdf2Sync", "createDecipheriv", "update", "final">>)
  ELSE Return(Utf8Decode(decrypted.out),
              <<"base64", "pbkdf2Sync", "createDecipheriv", "update",
                "final">>)

JasyptStrong_decrypt(self, encoded) ==
  IF encoded = <<>> THEN Throw("Encoded value cannot be empty", <<>>)
  ELSE LET combined == Base64Decode(encoded) IN
  IF Len(combined) < self.saltSize + 16
    THEN DecryptionFailed("Invalid data", <<"base64">>)
  ELSE LET salt       == subarray(combined, 0, self.saltSize)
           ciphertext == subarray(combined, self.saltSize, Len(combined))
       IN
  IF Len(ciphertext) % 16 # 0
    THEN DecryptionFailed("Invalid data", <<"base64">>)
  ELSE LET d == JasyptStrong_deriveKeyAndIv(self, salt) IN
  IF d.err # "" THEN DecryptionFailed(d.err, <<"base64", "pbkdf2Sync">>)
  ELSE LET bad == createCipheriv("aes-256-cbc", d.key, d.iv) IN
  IF bad # ""
    THEN DecryptionFailed(bad, <<"base64", "pbkdf2Sync", "createDecipheriv">>)
  ELSE LET decrypted == CbcDecrypt(16, d.key, d.iv, ciphertext) IN
  IF decrypted.err # ""
    THEN DecryptionFailed(decrypted.err,
           <<"base64", "pbkdf2Sync", "createDecipheriv", "update", "final">>)
  ELSE Return(Utf8Decode(decrypted.out),
              <<"base64", "pbkdf2Sync", "createDecipheriv", "update",
                "final">>)

\* ---------------------------------------------------------- the program

\* Bounds of the model: the encrypt calls made on one instance, and the
\* distinct outcomes the random generator can have for one call.
MaxEncrypts == 2

MaxEntropy == 2

\* The passwords, plaintexts, options and encoded values the calls are made
\* with.  Code units: 97 'a', 32 ' ', 0 NUL, 233 e-acute (2 bytes in
\* UTF-8), 8364 euro sign (3 bytes), 55357 56592 a surrogate pair (4 bytes),
\* 55357 alone an unpaired surrogate; 16 letters fill whole cipher blocks.
Passwords == {<<97>>, <<97, 233>>}

Plaintexts ==
  {<<>>, <<32>>, <<233, 0, 8364>>, <<55357, 56592>>, <<55357>>,
   <<97, 98, 99, 100, 101, 102, 103, 104, 105, 106, 107, 108, 109, 110, 111,
     112>>}

OptionSets ==
  { <<>>,
    [iterations |-> 1],
    [iterations |-> 2, saltSize |-> 8],
    [saltSize |-> 0],
    [keySize |-> 16],
    [iterations |-> 0],
    [iterations |-> 0 - 1] }

Variants == {"Encryptor", "JasyptEncryptor", "JasyptStrongEncryptor"}

\* The value of a variable that holds no instance.
NoInstance ==
  [variant |-> "none", password |-> <<>>, iterations |-> 0, saltSize |-> 0,
   keySize |-> 0]

\* The lengths of the buffers whose Base64 text is passed to decrypt.
BlobLengths == {1, 8, 15, 16, 17, 24, 31, 32, 33, 40, 43, 44, 47, 48}

Encoded ==
  {<<>>} \cup {Base64Encode(randomBytes(n, 5).out) : n \in BlobLengths}

\* A string without unpaired surrogates.
WellFormed(s) ==
  \A i \in 1..Len(s) :
    /\ IsHighSurrogate(s[i]) => i < Len(s) /\ IsLowSurrogate(s[i + 1])
    /\ IsLowSurrogate(s[i]) => i > 1 /\ IsHighSurrogate(s[i - 1])

\* new Variant(password, options)
New(variant, password, options) ==
  LET c == IF variant = "Encryptor"
             THEN Encryptor_constructor(password, options)
           ELSE IF variant = "JasyptEncryptor"
             THEN Jasypt_constructor(password, options)
           ELSE JasyptStrong_constructor(password, options)
  IN  IF c.err # "" THEN [err |-> c.err, self |-> NoInstance] ELSE c

\* self.encrypt(plaintext); the draws of the call are named by r.
encrypt(self, plaintext, r) ==
  IF self.variant = "Encryptor"
    THEN Encryptor_encrypt(self, plaintext, 2 * r, 2 * r + 1)
  ELSE IF self.variant = "JasyptEncryptor"
    THEN Jasypt_encrypt(self, plaintext, 2 * r)
  ELSE JasyptStrong_encrypt(self, plaintext, 2 * r)

\* self.decrypt(encoded)
decrypt(self, encoded) ==
  IF self.variant = "Encryptor" THEN Encryptor_decrypt(self, encoded)
  ELSE IF self.variant = "JasyptEncryptor" THEN Jasypt_decrypt(self, encoded)
  ELSE JasyptStrong_decrypt(self, encoded)

\* encryptWithPrefix that returns the blob without the frame.
encryptWithPrefix_unframed(self, plaintext, r) == encrypt(self, plaintext, r)

\* `${ENC_PREFIX}${encrypted}${ENC_SUFFIX}` when encrypt returned, what
\* encrypt threw when it threw.
WithPrefix(encrypted) ==
  IF encrypted.err # "" THEN encrypted
  ELSE Return(ENC_PREFIX \o encrypted.val \o ENC_SUFFIX, encrypted.calls)

\* self.encryptWithPrefix(plaintext)
encryptWithPrefix(self, plaintext, r) ==
  WithPrefix(encrypt(self, plaintext, r))

\* decryptPrefixed that does not trim the value.
decryptPrefixed_untrimmed(self, value) ==
  IF ~startsWith(value, ENC_PREFIX) \/ ~endsWith(value, ENC_SUFFIX)
    THEN Throw("Invalid encrypted format, expected ENC(...)", <<>>)
  ELSE decrypt(self, slice(value, Len(ENC_PREFIX), 0 - Len(ENC_SUFFIX)))

\* decryptPrefixed that takes a frame with nothing inside for a value without
\* a frame.
decryptPrefixed_nonempty(self, value) ==
  LET trimmed == trim(value) IN
  IF \/ ~startsWith(trimmed, ENC_PREFIX)
     \/ ~endsWith(trimmed, ENC_SUFFIX)
     \/ Len(trimmed) = Len(ENC_PREFIX) + Len(ENC_SUFFIX)
    THEN Throw("Invalid encrypted format, expected ENC(...)", <<>>)
  ELSE decrypt(self, slice(trimmed, Len(ENC_PREFIX), 0 - Len(ENC_SUFFIX)))

\* self.decryptPrefixed(value)
decryptPrefixed(self, value) ==
  LET trimmed == trim(value) IN
  IF ~startsWith(trimmed, ENC_PREFIX) \/ ~endsWith(trimmed, ENC_SUFFIX)
    THEN Throw("Invalid encrypted format, expected ENC(...)", <<>>)
  ELSE decrypt(self, slice(trimmed, Len(ENC_PREFIX), 0 - Len(ENC_SUFFIX)))

\* The callback of replace: (match) => { try { return
\* this.decryptPrefixed(match) } catch { return match } }
Replacement(self, match) ==
  LET res == decryptPrefixed(self, match)
  IN  IF res.err = "" THEN res.val ELSE match

RECURSIVE ReplaceFrom(_, _, _)
\* input.replace(ENC_PATTERN, callback) from position i on: the text up to
\* the leftmost match, what the callback returns for the match, and the
\* same for what follows the match.
ReplaceFrom(self, input, i) ==
  LET starts == {k \in i..Len(input) : MatchEnd(input, k) # 0} IN
  IF starts = {} THEN SubSeq(input, i, Len(input))
  ELSE LET k == CHOOSE k \in starts : \A l \in starts : k <= l
           e == MatchEnd(input, k)
       IN  SubSeq(input, i, k - 1)
             \o Replacement(self, SubSeq(input, k, e))
             \o ReplaceFrom(self, input, e + 1)

\* replace with a pattern that lacks the g flag: the first match only.
decryptAllInString_first(self, input) ==
  LET starts == {k \in 1..Len(input) : MatchEnd(input, k) # 0} IN
  IF starts = {} THEN Return(input, <<>>)
  ELSE LET k == CHOOSE k \in starts : \A l \in starts : k <= l
           e == MatchEnd(input, k)
       IN  Return(SubSeq(input, 1, k - 1)
                    \o Replacement(self, SubSeq(input, k, e))
                    \o SubSeq(input, e + 1, Len(input)), <<>>)

\* replace that goes on from where the pattern was left.
ScanStart_stale(index) == index

\* String.prototype.replace sets the lastIndex of a global pattern to 0
\* before it looks for the first match.
ScanStart(index) == 0

\* input.replace(ENC_PATTERN, callback) when ENC_PATTERN.lastIndex is index
replaceAll(self, input, index) == ReplaceFrom(self, input, ScanStart(index) + 1)

\* replace run a second time on what the first run returned.
decryptAllInString_again(self, input) ==
  Return(ReplaceFrom(self, ReplaceFrom(self, input, 1), 1), <<>>)

\* self.decryptAllInString(input), with the shared pattern at rest
decryptAllInString(self, input) == Return(replaceAll(self, input, 0), <<>>)

\* The body of the loop of decryptMap for one entry.
DecryptEntry(self, result, key, value) ==
  IF isEncrypted(Str(value))
    THEN LET res == decryptPrefixed(self, value)
         IN  IF res.err = "" THEN SetProperty(result, key, res.val)
             ELSE SetProperty(result, key, value)
  ELSE SetProperty(result, key, value)

RECURSIVE DecryptEntries(_, _, _, _)
\* for (const [key, value] of Object.entries(config)) ..., from entry i on
DecryptEntries(self, entries, i, result) ==
  IF i > Len(entries) THEN result
  ELSE DecryptEntries(self, entries, i + 1,
         DecryptEntry(self, result, entries[i][1], entries[i][2]))

\* self.decryptMap(config): config is Object.entries(config), the pairs of
\* key and value in order; val is the object returned, a function from its
\* own keys to their values.
decryptMap(self, config) ==
  Return(DecryptEntries(self, config, 1, <<>>), <<>>)

\* self.deriveKeyAndIv(salt), and self.deriveKey(salt) on the authenticated
\* variant: val is the pair of the key and the IV (no IV on that variant).
deriveKeyAndIv(self, salt) ==
  IF self.variant = "Encryptor"
    THEN LET key == Encryptor_deriveKey(self, salt)
         IN  IF key.err # "" THEN Throw(key.err, <<"pbkdf2Sync">>)
             ELSE Return(<<key.out, <<>>>>, <<"pbkdf2Sync">>)
  ELSE IF self.variant = "JasyptEncryptor"
    THEN LET d == Jasypt_deriveKeyAndIv(self, salt)
         IN  Return(<<d.key, d.iv>>, <<"md5">>)
  ELSE LET d == JasyptStrong_deriveKeyAndIv(self, salt)
       IN  IF d.err # "" THEN Throw(d.err, <<"pbkdf2Sync">>)
           ELSE Return(<<d.key, d.iv>>, <<"pbkdf2Sync">>)

\* The options that configure another instance like self.
OptionsOf(self) ==
  [iterations |-> self.iterations, saltSize |-> self.saltSize,
   keySize |-> self.keySize]

\* The bytes of the password self was built with.
PasswordBytes(self) ==
  IF self.variant = "JasyptEncryptor" THEN Utf8Encode(self.password)
  ELSE self.password

\* The blob with the top bit of the byte at position pos flipped.
Tamper(blob, pos) ==
  LET bytes == Base64Decode(blob)
  IN  Base64Encode([bytes EXCEPT ![pos] = (@ + 128) % 256])

\* The first and last byte of each segment of a blob of n bytes.
TamperPositions(self, n) ==
  {1, self.saltSize, self.saltSize + 1, self.saltSize + 12,
   self.saltSize + 13, n - 16, n - 15, n} \cap (1..n)

VARIABLES
  enc,    \* the instance under study, NoInstance before construction
  plain,  \* the plaintext of the encrypt calls made on enc
  blobs,  \* the strings returned by the encrypt calls on enc (by its
          \* encryptWithPrefix calls in SpecFramed), in order
  used,   \* the draws the random generator has handed out
  last,   \* the last call: operation, receiver, argument and outcome
  lastIndex,  \* ENC_PATTERN.lastIndex, the state of the shared pattern
  peer    \* a second instance in the same process, NoInstance without one

vars == <<enc, plain, blobs, used, last, lastIndex, peer>>

Call(op, self, arg, res) == [op |-> op, self |-> self, arg |-> arg, res |-> res]

Init ==
  /\ enc = NoInstance
  /\ plain = <<>>
  /\ blobs = <<>>
  /\ used = {}
  /\ last = Call("none", NoInstance, <<>>, Return(<<>>, <<>>))
  /\ lastIndex = 0
  /\ peer = NoInstance

\* A run builds an instance, calls encrypt on it, and ends with one call of
\* another method, whose outcome it keeps: those methods change nothing, so
\* what such a call does never depends on the calls made before it.
Running ==
  enc # NoInstance /\ last.op \in {"new", "encrypt", "encryptWithPrefix"}

\* enc = new Variant(password, options)
Construct(variant, password, options) ==
  /\ enc = NoInstance
  /\ LET c == New(variant, password, options)
     IN  /\ enc' = c.self
         /\ last' = Call("new", c.self, password,
                         IF c.err = "" THEN Return(<<>>, <<>>)
                         ELSE Throw(c.err, <<>>))
  /\ UNCHANGED <<plain, blobs, used, lastIndex, peer>>

\* enc.encrypt(plaintext), with fresh randomness r
Encrypt(plaintext, r) ==
  /\ Running
  /\ Len(blobs) < MaxEncrypts
  /\ blobs = <<>> \/ plaintext = plain
  /\ r \notin used
  /\ LET res == encrypt(enc, plaintext, r)
     IN  /\ last' = Call("encrypt", enc, plaintext, res)
         /\ blobs' = IF res.err = "" THEN Append(blobs, res.val) ELSE blobs
         /\ plain' = IF res.err = "" THEN plaintext ELSE plain
         /\ used' = IF res.calls = <<>> THEN used ELSE used \cup {r}
  /\ UNCHANGED <<enc, lastIndex, peer>>

\* enc.decrypt(blobs[k])
Decrypt(k) ==
  /\ Running
  /\ k \in 1..Len(blobs)
  /\ last' = Call("decrypt", enc, blobs[k], decrypt(enc, blobs[k]))
  /\ UNCHANGED <<enc, plain, blobs, used, lastIndex, peer>>

\* The blob the last encrypt call on enc returned.
LastBlob == blobs[Len(blobs)]

\* enc.decrypt(b) on the authenticated variant, for a copy b of the last
\* blob with one byte changed, the first or last byte of a segment, or two
\* bytes changed, that one and its mirror image
DecryptTampered(more) ==
  /\ Running
  /\ blobs # <<>>
  /\ enc.variant = "Encryptor"
  /\ LET n == Len(Base64Decode(LastBlob))
     IN  \E pos \in TamperPositions(enc, n) :
           LET b1 == Tamper(LastBlob, pos)
               b2 == IF more /\ n + 1 - pos # pos
                       THEN Tamper(b1, n + 1 - pos) ELSE b1
           IN  last' = Call("decrypt", enc, b2, decrypt(enc, b2))
  /\ UNCHANGED <<enc, plain, blobs, used, lastIndex, peer>>

\* new Variant(password, options).decrypt(b) for the last blob b, the
\* variant and options of enc and another password
DecryptWrongPassword(password) ==
  /\ Running
  /\ blobs # <<>>
  /\ LET c == New(enc.variant, password, OptionsOf(enc))
     IN  /\ c.err = ""
         /\ c.self # enc
         /\ last' = Call("decrypt", c.self, LastBlob, decrypt(c.self, LastBlob))
  /\ UNCHANGED <<enc, plain, blobs, used, lastIndex, peer>>

\* new Variant(password, options).decrypt(b) for the last blob b, another
\* variant and the password of enc
DecryptOtherVariant(variant, password, options) ==
  /\ Running
  /\ blobs # <<>>
  /\ variant # enc.variant
  /\ New(enc.variant, password, OptionsOf(enc)).self = enc
  /\ LET c == New(variant, password, options)
     IN  /\ c.err = ""
         /\ last' = Call("decrypt", c.self, LastBlob, decrypt(c.self, LastBlob))
  /\ UNCHANGED <<enc, plain, blobs, used, lastIndex, peer>>

\* enc.decrypt(encoded) for a value that no encrypt call returned
DecryptText(encoded) ==
  /\ Running
  /\ blobs = <<>>
  /\ last' = Call("decrypt", enc, encoded, decrypt(enc, encoded))
  /\ UNCHANGED <<enc, plain, blobs, used, lastIndex, peer>>

\* enc.deriveKeyAndIv(salt), for a salt the random generator can hand out
DeriveKeyAndIv(seed) ==
  /\ Running
  /\ blobs = <<>>
  /\ LET salt == randomBytes(enc.saltSize, seed).out
     IN  last' = Call("deriveKeyAndIv", enc, salt, deriveKeyAndIv(enc, salt))
  /\ UNCHANGED <<enc, plain, blobs, used, lastIndex, peer>>

Next ==
  \/ \E v \in Variants, p \in Passwords \cup {<<>>}, o \in OptionSets :
       Construct(v, p, o)
  \/ \E t \in Plaintexts, r \in 0..(MaxEntropy - 1) : Encrypt(t, r)
  \/ \E k \in 1..MaxEncrypts : Decrypt(k)
  \/ \E more \in BOOLEAN : DecryptTampered(more)
  \/ \E p \in Passwords : DecryptWrongPassword(p)
  \/ \E v \in Variants, p \in Passwords,
        o \in {<<>>, [iterations |-> 2, saltSize |-> 8]} :
       DecryptOtherVariant(v, p, o)
  \/ \E e \in Encoded : DecryptText(e)
  \/ \E s \in 0..(2 * MaxEntropy - 1) : DeriveKeyAndIv(s)

Spec == Init /\ [][Next]_vars

\* ------------------------------------------- framing and batch decryption

\* The options of the instances the framed values are made on.
FramedOptionSets == {<<>>, [iterations |-> 2, saltSize |-> 8]}

\* Texts around the framed values: 'db=', ';', a line feed, a blank, 'x'.
TextDb == <<100, 98, 61>>

TextSemi == <<59>>

TextLf == <<10>>

TextBlank == <<32>>

TextX == <<120>>

\* 'plaintext', 'ENC(missing', 'ENC(abc123)', '  ENC(value)  '
TextPlain == <<112, 108, 97, 105, 110, 116, 101, 120, 116>>

TextMissing == ENC_PREFIX \o <<109, 105, 115, 115, 105, 110, 103>>

TextAbc == ENC_PREFIX \o <<97, 98, 99, 49, 50, 51>> \o ENC_SUFFIX

TextValue ==
  <<32, 32>> \o ENC_PREFIX \o <<118, 97, 108, 117, 101>> \o ENC_SUFFIX
  \o <<32, 32>>

\* Framed values that are no blob: 'ENC()', 'ENC(Zg==)' whose Base64 text
\* holds one byte, 'ENC(!!!!)' whose content is no Base64 text.
EmptyItem == ENC_PREFIX \o ENC_SUFFIX

ShortItem == ENC_PREFIX \o <<90, 103, 61, 61>> \o ENC_SUFFIX

MalformedItem == ENC_PREFIX \o <<33, 33, 33, 33>> \o ENC_SUFFIX

\* The plaintext of enc framed by an instance like enc built with another
\* password.
WrongPasswordItem ==
  LET p == CHOOSE p \in Passwords :
             New(enc.variant, p, OptionsOf(enc)).self # enc
      c == New(enc.variant, p, OptionsOf(enc))
  IN  encryptWithPrefix(c.self, plain, 0).val

\* The first framed value of enc framed once more by enc: a framed value
\* whose plaintext is itself a framed value.
NestedItem == encryptWithPrefix(enc, blobs[1], MaxEntropy).val

\* The framed values that are made to fail.
BadItems == {EmptyItem, ShortItem, MalformedItem, WrongPasswordItem}

\* The values decryptPrefixed is called with: texts that are no framed
\* blob, and the first framed value of enc as it is, inside white space,
\* inside other text, without its frame or a part of it, with blanks inside
\* the frame, framed twice, and framed by another password.
PrefixedInputs ==
  IF blobs = <<>>
    THEN {<<>>, TextBlank, TextPlain, TextMissing, EmptyItem, ShortItem,
          TextBlank \o ShortItem \o TextLf, MalformedItem, ENC_PREFIX,
          ENC_SUFFIX}
  ELSE IF Len(blobs) > 1 THEN {}
  ELSE LET b     == blobs[1]
           inner == SubSeq(b, Len(ENC_PREFIX) + 1, Len(b) - Len(ENC_SUFFIX))
       IN  {b, TextBlank \o b \o TextLf, TextX \o b, b \o TextX, inner,
            SubSeq(b, 1, Len(b) - 1), inner \o ENC_SUFFIX,
            ENC_PREFIX \o TextBlank \o inner \o TextLf \o ENC_SUFFIX,
            ENC_PREFIX \o b \o ENC_SUFFIX, WrongPasswordItem}

\* The values isEncrypted is called with before an instance is built.
EncryptedInputs ==
  {Null, Undefined}
  \cup {Str(s) : s \in {<<>>, TextBlank, TextPlain, TextMissing, TextAbc,
                        EmptyItem, TextValue, ENC_PREFIX, ENC_SUFFIX,
                        TextX \o TextAbc, TextAbc \o TextX,
                        <<9>> \o TextAbc \o <<13, 10>>,
                        TextLf \o EmptyItem \o TextBlank}}

\* The strings decryptAllInString is called with: texts without a framed
\* blob; one framed value of enc inside other text, after 'ENC(' and after
\* a framed value that is made to fail; two framed values of enc inside
\* other text, next to each other and around 'ENC()'; a framed value whose
\* plaintext is a framed value of enc.
StringInputs ==
  IF blobs = <<>>
    THEN {<<>>, TextPlain, EmptyItem, TextMissing,
          TextDb \o ShortItem \o TextSemi, EmptyItem \o TextX \o ENC_SUFFIX,
          MalformedItem \o ShortItem}
  ELSE LET b1 == blobs[1]
           b  == blobs[Len(blobs)]
       IN  IF Len(blobs) = 1
             THEN {TextDb \o b \o TextSemi, ENC_PREFIX \o b,
                   TextDb \o NestedItem \o TextSemi}
                  \cup {bad \o TextSemi \o b : bad \in BadItems}
           ELSE {TextDb \o b1 \o TextSemi \o b \o TextLf, b \o b1,
                 b1 \o EmptyItem \o b}

\* Object.entries of the maps decryptMap is called with
MapInputs ==
  IF blobs = <<>>
    THEN {<<>>, << <<"user", TextPlain>> >>,
          << <<"first", EmptyItem>>, <<"second", ShortItem>> >>,
          << <<"__proto__", TextPlain>> >>}
  ELSE LET b1 == blobs[1]
           b  == blobs[Len(blobs)]
       IN  IF Len(blobs) = 1
             THEN {<< <<"user", TextPlain>>, <<"password", b>> >>,
                   << <<"__proto__", b>>, <<"user", TextPlain>> >>}
                  \cup {<< <<"first", bad>>, <<"second", b>> >> :
                          bad \in BadItems}
           ELSE {<< <<"first", b1>>,
                    <<"second", TextBlank \o b \o TextLf>> >>}

\* What a call op(plaintext) on enc with outcome res leaves behind: the
\* value returned and its plaintext are kept, and the draws r are used up
\* when the call got as far as the generator.
Encrypted(op, plaintext, r, res) ==
  /\ last' = Call(op, enc, plaintext, res)
  /\ blobs' = IF res.err = "" THEN Append(blobs, res.val) ELSE blobs
  /\ plain' = IF res.err = "" THEN plaintext ELSE plain
  /\ used' = IF res.calls = <<>> THEN used ELSE used \cup {r}

\* enc.encryptWithPrefix(plaintext), with fresh randomness r; the draws of
\* a run are named in the order the generator hands them out.
EncryptWithPrefix(plaintext, r) ==
  /\ Running
  /\ Len(blobs) < MaxEncrypts
  /\ blobs = <<>> \/ plaintext = plain
  /\ \A u \in used : u < r
  /\ Encrypted("encryptWithPrefix", plaintext, r,
               encryptWithPrefix(enc, plaintext, r))
  /\ UNCHANGED <<enc, lastIndex, peer>>

\* enc.decryptPrefixed(value)
DecryptPrefixed ==
  /\ Running
  /\ \E value \in PrefixedInputs :
       last' = Call("decryptPrefixed", enc, value,
                    decryptPrefixed(enc, value))
  /\ UNCHANGED <<enc, plain, blobs, used, lastIndex, peer>>

\* isEncrypted(value), before an instance is built or on the first framed
\* value of enc
IsEncrypted ==
  /\ \E value \in IF last.op = "none" THEN EncryptedInputs
                   ELSE IF Running /\ Len(blobs) = 1 THEN {Str(blobs[1])}
                   ELSE {} :
       last' = Call("isEncrypted", enc, value,
                    Return(isEncrypted(value), <<>>))
  /\ UNCHANGED <<enc, plain, blobs, used, lastIndex, peer>>

\* enc.decryptAllInString(input)
DecryptAllInString ==
  /\ Running
  /\ \E input \in StringInputs :
       last' = Call("decryptAllInString", enc, input,
                    decryptAllInString(enc, input))
  /\ lastIndex' = 0
  /\ UNCHANGED <<enc, plain, blobs, used, peer>>

\* enc.decryptMap(config)
DecryptMap ==
  /\ Running
  /\ \E config \in MapInputs :
       last' = Call("decryptMap", enc, config, decryptMap(enc, config))
  /\ UNCHANGED <<enc, plain, blobs, used, lastIndex, peer>>

NextFramed ==
  \/ \E v \in Variants, p \in Passwords \cup {<<>>}, o \in FramedOptionSets :
       Construct(v, p, o)
  \/ \E t \in Plaintexts, r \in 0..(MaxEntropy - 1) : EncryptWithPrefix(t, r)
  \/ DecryptPrefixed
  \/ IsEncrypted
  \/ DecryptAllInString
  \/ DecryptMap

SpecFramed == Init /\ [][NextFramed]_vars

\* ------------------------------------ files: the command line, the loader

\* content.split('\n'): the pieces of content between its line feeds.
split(content) ==
  LET nl == {i \in 1..Len(content) : content[i] = 10}
      n  == Cardinality(nl)
      At(j) == IF j = 0 THEN 0
               ELSE IF j = n + 1 THEN Len(content) + 1
               ELSE CHOOSE p \in nl : Cardinality({q \in nl : q <= p}) = j
  IN  [j \in 1..(n + 1) |-> SubSeq(content, At(j - 1) + 1, At(j) - 1)] \o <<>>

RECURSIVE join(_, _)
\* lines.join('\n'), from line i on
join(lines, i) ==
  IF i > Len(lines) THEN <<>>
  ELSE IF i = Len(lines) THEN lines[i]
  ELSE lines[i] \o <<10>> \o join(lines, i + 1)

\* str.indexOf('='): the 0-based position of the first '=', -1 without one.
indexOf(str) ==
  LET at == {i \in 1..Len(str) : str[i] = 61}
  IN  IF at = {} THEN 0 - 1 ELSE (CHOOSE i \in at : \A j \in at : i <= j) - 1

\* The characters " and '.
Quotes == {34, 39}

\* value.replace(/^["']|["']$/g, '') that takes away nothing.
StripQuotes_none(value) == value

\* value.replace(/^["']|["']$/g, ''): a quote at the start is taken away,
\* and a quote at the end that is not that same character.
StripQuotes(value) ==
  LET n     == Len(value)
      first == IF n >= 1 /\ value[1] \in Quotes THEN 2 ELSE 1
      end   == IF n >= 2 /\ value[n] \in Quotes THEN n - 1 ELSE n
  IN  SubSeq(value, first, end)

\* createEncryptor(password, jasypt, jasyptStrong)
createEncryptor(password, jasypt, jasyptStrong) ==
  IF jasypt THEN New("JasyptEncryptor", password, <<>>)
  ELSE IF jasyptStrong THEN New("JasyptStrongEncryptor", password, <<>>)
  ELSE New("Encryptor", password, <<>>)

\* outputLines.push(`${key}=${encrypted}`), when encryptWithPrefix returned.
PushEncrypted(key, encrypted) ==
  IF encrypted.err # ""
    THEN [err |-> encrypted.err, out |-> <<>>, drew |-> TRUE]
  ELSE [err |-> "", out |-> key \o <<61>> \o encrypted.val, drew |-> TRUE]

\* The body of the loop of cmdEncryptFile for one line: out is the line
\* pushed, drew tells whether encryptWithPrefix was called (with draw r).
EncryptFileLine(enc0, line, r) ==
  LET trimmed == trim(line)
      eqIndex == indexOf(trimmed)
      value   == StripQuotes(slice(trimmed, eqIndex + 1, Len(trimmed)))
  IN  IF /\ eqIndex >= 0
         /\ ~startsWith(trimmed, <<35>>)
         /\ ~isEncrypted(Str(value))
         /\ value # <<>>
        THEN PushEncrypted(slice(trimmed, 0, eqIndex),
                           encryptWithPrefix(enc0, value, r))
      ELSE [err |-> "", out |-> line, drew |-> FALSE]

RECURSIVE EncryptFileLines(_, _, _, _, _)
\* for (const line of lines) ..., from line i on, with the lines pushed so
\* far; the calls of encryptWithPrefix take the draws r, r + 1, ...
EncryptFileLines(enc0, lines, i, r, outputLines) ==
  IF i > Len(lines) THEN [err |-> "", out |-> outputLines, next |-> r]
  ELSE LET l == EncryptFileLine(enc0, lines[i], r)
       IN  IF l.err # ""
             THEN [err |-> l.err, out |-> outputLines, next |-> r + 1]
           ELSE EncryptFileLines(enc0, lines, i + 1,
                                 IF l.drew THEN r + 1 ELSE r,
                                 Append(outputLines, l.out))

\* n calls of encryptWithPrefix.
Calls(n) == [k \in 1..n |-> "encryptWithPrefix"] \o <<>>

\* fs.writeFileSync(args.output, outputLines.join('\n')) after the loop, or
\* the catch clause when the loop threw: nothing is written.
Written(done, r) ==
  IF done.err # "" THEN Throw(done.err, Calls(done.next - r))
  ELSE Return(join(done.out, 1), Calls(done.next - r))

\* cmdEncryptFile once the encryptor enc0 is created, for the content of the
\* input file: val is the text written, calls the calls of encryptWithPrefix
\* made, which take the draws r, r + 1, ...
cmdEncryptFile(enc0, content, r) ==
  Written(EncryptFileLines(enc0, split(content), 1, r, <<>>), r)

\* new ConfigLoader(password, options): this.encryptor = new Encryptor(...)
ConfigLoader_constructor(password, options) ==
  New("Encryptor", password, options)

\* '__proto__' as the key a line of a file holds.
ProtoKey == <<95, 95, 112, 114, 111, 116, 111, 95, 95>>

\* config[key] = value on an object literal whose keys are read from a
\* file: the setter of '__proto__' ignores a string.
SetConfig(config, key, value) ==
  IF key = ProtoKey THEN config
  ELSE [k \in DOMAIN config \cup {key} |->
          IF k = key THEN value ELSE config[k]]

\* The quotes around a value are taken away when both ends hold the same
\* quote.
Unquote(value) ==
  IF \/ startsWith(value, <<34>>) /\ endsWith(value, <<34>>)
     \/ startsWith(value, <<39>>) /\ endsWith(value, <<39>>)
    THEN slice(value, 1, 0 - 1)
  ELSE value

\* try { value = decryptPrefixed(value) } catch { /* keep original */ }
KeepOnError(value, res) == IF res.err = "" THEN res.val ELSE value

\* The value loadEnvFile stores for the text after '='.
LoadedValue(self, value) ==
  IF isEncrypted(Str(value))
    THEN KeepOnError(value, decryptPrefixed(self, value))
  ELSE value

\* The body of the loop of loadEnvFile for one line.
LoadEnvLine(self, config, line) ==
  LET trimmed == trim(line)
      eqIndex == indexOf(trimmed)
  IN  IF trimmed = <<>> \/ startsWith(trimmed, <<35>>) THEN config
      ELSE IF eqIndex = 0 - 1 THEN config
      ELSE SetConfig(config, trim(slice(trimmed, 0, eqIndex)),
             LoadedValue(self,
               Unquote(trim(slice(trimmed, eqIndex + 1, Len(trimmed))))))

RECURSIVE LoadEnvLines(_, _, _, _)
\* for (const line of content.split('\n')) ..., from line i on
LoadEnvLines(self, lines, i, config) ==
  IF i > Len(lines) THEN config
  ELSE LoadEnvLines(self, lines, i + 1, LoadEnvLine(self, config, lines[i]))

\* loader.loadEnvFile(filepath) for a file with this content and a loader
\* whose encryptor is self: val is the object returned, a function from its
\* own keys to their values.
loadEnvFile(self, content) ==
  Return(LoadEnvLines(self, split(content), 1, <<>>), <<>>)

\* What JSON.parse returns: a string, a number, null, an array of values,
\* or an object, given by its Object.entries.
Number(n) == [type |-> "number", num |-> n]

Array(items) == [type |-> "array", items |-> items]

Object(entries) == [type |-> "object", entries |-> entries]

\* const result = {}: no own property, the prototype Object.prototype.
EmptyObject == [type |-> "object", own |-> <<>>, proto |-> "Object.prototype"]

\* result[key] = value on an object literal, for any value: the setter of
\* '__proto__' makes an object or null the prototype and ignores the rest.
SetMember(result, key, value) ==
  IF key = "__proto__"
    THEN IF value.type \in {"object", "array", "null"}
           THEN [result EXCEPT !.proto = value]
         ELSE result
  ELSE [result EXCEPT !.own = SetProperty(result.own, key, value)]

\* try { return decryptPrefixed(obj) } catch { return obj }
StringOrOriginal(obj, res) == IF res.err = "" THEN Str(res.val) ELSE obj

RECURSIVE decryptRecursive(_, _)
RECURSIVE DecryptMembers(_, _, _, _)
\* for (const [key, value] of Object.entries(obj)) result[key] =
\* decryptRecursive(value), from entry i on
DecryptMembers(self, entries, i, result) ==
  IF i > Len(entries) THEN result
  ELSE DecryptMembers(self, entries, i + 1,
         SetMember(result, entries[i][1],
                   decryptRecursive(self, entries[i][2])))

\* loader.decryptRecursive(obj) with the encryptor self
decryptRecursive(self, obj) ==
  IF obj.type = "string"
    THEN IF isEncrypted(obj)
           THEN StringOrOriginal(obj, decryptPrefixed(self, obj.str))
         ELSE obj
  ELSE IF obj.type = "array"
    THEN Array([i \in 1..Len(obj.items) |->
                  decryptRecursive(self, obj.items[i])] \o <<>>)
  ELSE IF obj.type = "object"
    THEN DecryptMembers(self, obj.entries, 1, EmptyObject)
  ELSE obj

\* loader.loadJson(filepath) for a file that JSON.parse reads as config
loadJson(self, config) == Return(decryptRecursive(self, config), <<>>)

\* The lines of the files encrypt-file is run on: '# K=v', 'plain', 'K=v',
\* 'K="v"', 'K=', 'K=""', 'K=ENC(abc123)', "K='ENC(abc123)'", '  K = v ',
\* 'K=a=b', '', 'K="', 'K=ENC(abc123', '=v', 'K=v' before a carriage return,
\* 'K= ENC(abc123)'.
FileLines ==
  {<<35, 32, 75, 61, 118>>, <<112, 108, 97, 105, 110>>, <<75, 61, 118>>,
   <<75, 61, 34, 118, 34>>, <<75, 61>>, <<75, 61, 34, 34>>,
   <<75, 61>> \o TextAbc, <<75, 61, 39>> \o TextAbc \o <<39>>,
   <<32, 32, 75, 32, 61, 32, 118, 32>>, <<75, 61, 97, 61, 98>>, <<>>,
   <<75, 61, 34>>, <<75, 61>> \o SubSeq(TextAbc, 1, Len(TextAbc) - 1),
   <<61, 118>>, <<75, 61, 118, 13>>, <<75, 61, 32>> \o TextAbc}

\* The lines that follow another line in a file of two lines.
SecondLines ==
  {<<35, 32, 75, 61, 118>>, <<75, 61, 118>>, <<75, 61>> \o TextAbc, <<>>}

\* The contents of the files encrypt-file is run on.
FileContents ==
  FileLines \cup {a \o TextLf \o b : a \in FileLines, b \in SecondLines}

\* The contents of the files loadEnvFile reads: before a value is encrypted,
\* files without a framed value and files with framed values that are made
\* to fail; then files that hold framed values of enc around such values,
\* inside quotes and white space, and under the key '__proto__'.
EnvContents ==
  IF blobs = <<>>
    THEN {<<>>, <<35, 32, 75, 61, 118>>, <<112, 108, 97, 105, 110>>,
          <<75, 61, 118>>, <<75, 61, 34, 118, 34>>,
          <<65, 61>> \o EmptyItem \o TextLf \o <<66, 61, 118>>,
          <<65, 61>> \o ShortItem \o TextLf \o <<66, 61, 118>>,
          <<65, 61, 39>> \o MalformedItem \o <<39>>,
          ProtoKey \o <<61>> \o ShortItem,
          ProtoKey \o <<61, 118>>}
  ELSE LET b1 == blobs[1]
           b  == blobs[Len(blobs)]
       IN  IF Len(blobs) = 1
             THEN {<<65, 61>> \o b,
                   <<65, 61, 34>> \o b \o <<34>>,
                   <<32, 65, 32, 61, 32>> \o b \o <<32, 13>>,
                   ProtoKey \o <<61>> \o b}
                  \cup {<<65, 61>> \o bad \o TextLf \o <<66, 61>> \o b :
                          bad \in BadItems}
           ELSE {<<65, 61>> \o b1 \o TextLf \o <<66, 61>> \o MalformedItem
                   \o TextLf \o <<67, 61>> \o b}

\* The values loadJson reads from a file.
JsonValues ==
  IF blobs = <<>>
    THEN {Str(TextPlain), Null, Number(5432), Object(<<>>),
          Object(<< <<"a", Str(ShortItem)>>, <<"b", Str(TextPlain)>> >>),
          Array(<<Str(EmptyItem), Number(1)>>),
          Object(<< <<"__proto__", Str(ShortItem)>> >>)}
  ELSE LET b1 == blobs[1]
           b  == blobs[Len(blobs)]
       IN  IF Len(blobs) = 1
             THEN {Str(b),
                   Object(<< <<"user", Str(TextPlain)>>,
                             <<"password", Str(b)>>,
                             <<"db",
                               Object(<< <<"bad", Str(ShortItem)>>,
                                         <<"list",
                                           Array(<<Str(b),
                                                   Str(MalformedItem),
                                                   Null>>)>> >>)>> >>),
                   Object(<< <<"__proto__",
                               Object(<< <<"x", Str(b)>> >>)>>,
                             <<"y", Str(WrongPasswordItem)>> >>)}
           ELSE {Array(<<Str(b1), Str(ShortItem), Str(b)>>)}

\* What new ConfigLoader(password, options) with outcome c leaves behind.
Created(password, c) ==
  /\ enc' = c.self
  /\ last' = Call("new", c.self, password,
                  IF c.err = "" THEN Return(<<>>, <<>>)
                  ELSE Throw(c.err, <<>>))

\* loader = new ConfigLoader(password, options); enc is loader.encryptor
NewConfigLoader(password, options) ==
  /\ enc = NoInstance
  /\ last.op = "none"
  /\ Created(password, ConfigLoader_constructor(password, options))
  /\ UNCHANGED <<plain, blobs, used, lastIndex, peer>>

\* loader.loadEnvFile(filepath)
LoadEnvFile ==
  /\ Running
  /\ \E content \in EnvContents :
       last' = Call("loadEnvFile", enc, content, loadEnvFile(enc, content))
  /\ UNCHANGED <<enc, plain, blobs, used, lastIndex, peer>>

\* loader.loadJson(filepath)
LoadJson ==
  /\ Running
  /\ \E config \in JsonValues :
       last' = Call("loadJson", enc, config, loadJson(enc, config))
  /\ UNCHANGED <<enc, plain, blobs, used, lastIndex, peer>>

\* What the run of encrypt-file with the encryptor c.self and outcome res
\* leaves behind.
FileEncrypted(c, content, res) ==
  /\ enc' = c.self
  /\ last' = Call("encrypt-file", c.self, content, res)
  /\ used' = 0..(Len(res.calls) - 1)

\* nodecrypt encrypt-file -p password [--jasypt] [--jasypt-strong] -i input,
\* in a new process, for an input file with this content
EncryptFile(password, jasypt, jasyptStrong, content) ==
  /\ enc = NoInstance
  /\ last.op = "none"
  /\ IF password = <<>>
       THEN /\ last' = Call("encrypt-file", NoInstance, content,
                            Throw("password is required", <<>>))
            /\ UNCHANGED <<enc, used>>
     ELSE FileEncrypted(createEncryptor(password, jasypt, jasyptStrong),
                        content,
                        cmdEncryptFile(
                          createEncryptor(password, jasypt, jasyptStrong).self,
                          content, 0))
  /\ UNCHANGED <<plain, blobs, lastIndex, peer>>

NextFiles ==
  \/ \E p \in Passwords \cup {<<>>}, o \in FramedOptionSets :
       NewConfigLoader(p, o)
  \/ \E t \in Plaintexts, r \in 0..(MaxEntropy - 1) : EncryptWithPrefix(t, r)
  \/ LoadEnvFile
  \/ LoadJson
  \/ \E p \in Passwords \cup {<<>>}, j \in BOOLEAN, js \in BOOLEAN,
        content \in FileContents :
       EncryptFile(p, j, js, content)

SpecFiles == Init /\ [][NextFiles]_vars

\* ------------------------------------- several instances in one process

\* The plaintext of the values made in a process with two instances.
SharedText == <<233, 0, 8364>>

\* The instances calls are made on.
Receivers == {enc, peer} \ {NoInstance}

\* The blob k inside its frame.
FramedBlob(k) == ENC_PREFIX \o blobs[k] \o ENC_SUFFIX

\* The strings decryptAllInString is called with in such a process.
SharedStrings ==
  IF blobs = <<>> THEN {TextPlain, TextDb \o ShortItem \o TextSemi}
  ELSE {TextDb \o FramedBlob(1) \o TextSemi,
        FramedBlob(Len(blobs)) \o FramedBlob(1)}

\* Object.entries of the maps decryptMap is called with in such a process.
SharedMaps ==
  IF blobs = <<>> THEN {<< <<"user", TextPlain>> >>}
  ELSE {<< <<"user", TextPlain>>, <<"password", FramedBlob(1)>> >>}

\* The strings other code of the process matches against ENC_PATTERN.
ExecTexts == {TextAbc \o TextX, TextPlain}

\* ENC_PATTERN.exec(text) when ENC_PATTERN.lastIndex is index: the end of
\* the leftmost match that starts at index or after it, 0 without one.
exec(text, index) ==
  LET starts == {k \in (index + 1)..Len(text) : MatchEnd(text, k) # 0}
  IN  IF starts = {} THEN 0
      ELSE MatchEnd(text, CHOOSE k \in starts : \A l \in starts : k <= l)

\* What peer = new Variant(password, options) with outcome c leaves behind.
PeerCreated(password, c) ==
  /\ peer' = c.self
  /\ last' = Call("new", c.self, password,
                  IF c.err = "" THEN Return(<<>>, <<>>)
                  ELSE Throw(c.err, <<>>))

\* peer = new Variant(password, options), once enc is built
NewPeer(variant, password, options) ==
  /\ enc # NoInstance
  /\ peer = NoInstance
  /\ PeerCreated(password, New(variant, password, options))
  /\ UNCHANGED <<enc, plain, blobs, used, lastIndex>>

\* What self.encrypt(plaintext) with outcome res leaves behind.
EncryptedBy(self, plaintext, r, res) ==
  /\ last' = Call("encrypt", self, plaintext, res)
  /\ blobs' = IF res.err = "" THEN Append(blobs, res.val) ELSE blobs
  /\ plain' = IF res.err = "" THEN plaintext ELSE plain
  /\ used' = IF res.calls = <<>> THEN used ELSE used \cup {r}

\* self.encrypt(plaintext) on either instance, with the next draw r of the
\* generator
EncryptOn(self, plaintext, r) ==
  /\ self \in Receivers
  /\ Len(blobs) < MaxEncrypts
  /\ r = Cardinality(used)
  /\ EncryptedBy(self, plaintext, r, encrypt(self, plaintext, r))
  /\ UNCHANGED <<enc, lastIndex, peer>>

\* self.decrypt(blobs[k]) on either instance
DecryptOn(self, k) ==
  /\ self \in Receivers
  /\ k \in 1..Len(blobs)
  /\ last' = Call("decrypt", self, blobs[k], decrypt(self, blobs[k]))
  /\ UNCHANGED <<enc, plain, blobs, used, lastIndex, peer>>

\* self.decryptPrefixed('ENC(' + blobs[k] + ')') on either instance
DecryptPrefixedOn(self, k) ==
  /\ self \in Receivers
  /\ k \in 1..Len(blobs)
  /\ last' = Call("decryptPrefixed", self, FramedBlob(k),
                  decryptPrefixed(self, FramedBlob(k)))
  /\ UNCHANGED <<enc, plain, blobs, used, lastIndex, peer>>

\* self.decryptAllInString(input) on either instance, with the shared
\* pattern as the calls before it left it
DecryptAllInStringOn(self) ==
  /\ self \in Receivers
  /\ \E input \in SharedStrings :
       last' = Call("decryptAllInString", self, input,
                    Return(replaceAll(self, input, lastIndex), <<>>))
  /\ lastIndex' = 0
  /\ UNCHANGED <<enc, plain, blobs, used, peer>>

\* self.decryptMap(config) on either instance
DecryptMapOn(self) ==
  /\ self \in Receivers
  /\ \E config \in SharedMaps :
       last' = Call("decryptMap", self, config, decryptMap(self, config))
  /\ UNCHANGED <<enc, plain, blobs, used, lastIndex, peer>>

\* ENC_PATTERN.exec(text), by other code of the process that imports the
\* pattern from utils
ExecPattern ==
  /\ enc # NoInstance
  /\ \E text \in ExecTexts :
       /\ lastIndex' = exec(text, lastIndex)
       /\ last' = Call("exec", NoInstance, text,
                       Return(exec(text, lastIndex) # 0, <<>>))
  /\ UNCHANGED <<enc, plain, blobs, used, peer>>

NextShared ==
  \/ \E v \in Variants : Construct(v, <<97>>, <<>>)
  \/ \E v \in {"Encryptor", "JasyptEncryptor"} :
       NewPeer(v, <<97, 233>>, [iterations |-> 2])
  \/ \E self \in Receivers, r \in 0..(MaxEntropy - 1) :
       EncryptOn(self, SharedText, r)
  \/ \E self \in Receivers, k \in 1..MaxEncrypts : DecryptOn(self, k)
  \/ \E self \in Receivers, k \in 1..MaxEncrypts : DecryptPrefixedOn(self, k)
  \/ \E self \in Receivers : DecryptAllInStringOn(self)
  \/ \E self \in Receivers : DecryptMapOn(self)
  \/ ExecPattern

SpecShared == Init /\ [][NextShared]_vars

\* ------------------------------------------------------------ properties

\* The instance was built with the default options.
DefaultOptions(self) ==
  \E p \in Passwords : self = New(self.variant, p, <<>>).self

\* The last call was decrypt, made on self with a blob that encrypt returned.
DecryptedBlobOn(self) ==
  /\ last.op = "decrypt"
  /\ last.self = self
  /\ \E k \in 1..Len(blobs) : last.arg = blobs[k]

\* The last call was decrypt on enc with a changed copy of a blob.
DecryptedTamperedBlob ==
  /\ last.op = "decrypt"
  /\ last.self = enc
  /\ blobs # <<>>
  /\ \A k \in 1..Len(blobs) : last.arg # blobs[k]

\* The last call was decrypt of a blob of enc on an instance of the same
\* variant and options built with another password.
DecryptedWithWrongPassword ==
  /\ last.op = "decrypt"
  /\ last.self # enc
  /\ last.self.variant = enc.variant
  /\ OptionsOf(last.self) = OptionsOf(enc)
  /\ \E k \in 1..Len(blobs) : last.arg = blobs[k]

\* The last call was decrypt of a blob of enc on an instance of another
\* variant built with the same password.
DecryptedByOtherVariant ==
  /\ last.op = "decrypt"
  /\ last.self.variant # enc.variant
  /\ PasswordBytes(last.self) = PasswordBytes(enc)
  /\ \E k \in 1..Len(blobs) : last.arg = blobs[k]

\* The call returned the string val.
Returns(res, val) == res.err = "" /\ res.val = val

\* C1 as stated: with default options, in each variant, encrypt succeeds on
\* every non-empty plaintext and decrypt of the blob returns the plaintext.
C1_RoundTripAnyString ==
  DefaultOptions(enc) =>
    /\ last.op = "encrypt" /\ last.arg # <<>> => last.res.err = ""
    /\ DecryptedBlobOn(enc) => Returns(last.res, plain)

\* C1 as amended: with default options, in each variant, encrypt succeeds on
\* every non-empty plaintext, and decrypt of the blob returns the plaintext
\* when the plaintext has no unpaired surrogate.
C1_RoundTripWellFormed ==
  DefaultOptions(enc) =>
    /\ last.op = "encrypt" /\ last.arg # <<>> => last.res.err = ""
    /\ DecryptedBlobOn(enc) /\ WellFormed(plain) => Returns(last.res, plain)

C1_Witness ==
  /\ DefaultOptions(enc)
  /\ enc.variant = "JasyptEncryptor"
  /\ DecryptedBlobOn(enc)
  /\ plain = <<233, 0, 8364>>
  /\ Returns(last.res, plain)

\* C2: under every configuration with a positive iteration count, any salt
\* size and any key size, encrypt succeeds on every non-empty plaintext and
\* decrypt of the blob returns the plaintext (taken without unpaired
\* surrogates, which C1 is about).
C2_RoundTripEveryConfiguration ==
  enc # NoInstance /\ enc.iterations >= 1 =>
    /\ last.op = "encrypt" /\ last.arg # <<>> => last.res.err = ""
    /\ DecryptedBlobOn(enc) /\ WellFormed(plain) => Returns(last.res, plain)

\* C3: two encrypt calls on one instance with the same plaintext return
\* different blobs, and each of them decrypts to the plaintext (taken
\* without unpaired surrogates, which C1 is about).
C3_ProbabilisticEncryption ==
  /\ Len(blobs) = 2 => blobs[1] # blobs[2]
  /\ DecryptedBlobOn(enc) /\ WellFormed(plain) => Returns(last.res, plain)

\* C4: a Modern instance built with another password and the same options
\* always fails with 'Decryption failed' on a blob of enc.
C4_ModernWrongPasswordFails ==
  enc.variant = "Encryptor" /\ DecryptedWithWrongPassword =>
    last.res.err = "Decryption failed"

C4_Witness ==
  /\ enc.variant = "Encryptor"
  /\ DecryptedWithWrongPassword
  /\ last.res.err = "Decryption failed"
  /\ last.res.cause = "Unsupported state or unable to authenticate data"

\* C5: a Legacy or Strong instance built with another password and the same
\* options fails with 'Decryption failed' on a blob of enc or returns a
\* string that is not the plaintext.
C5_BlockWrongPasswordNeverPlaintext ==
  enc.variant \in {"JasyptEncryptor", "JasyptStrongEncryptor"}
  /\ DecryptedWithWrongPassword =>
    \/ last.res.err = "Decryption failed"
    \/ last.res.err = "" /\ last.res.val # plain

C5_Witness ==
  /\ enc.variant = "JasyptEncryptor"
  /\ DecryptedWithWrongPassword
  /\ last.res.err = "Decryption failed"
  /\ last.res.cause = "bad decrypt"

\* C6: Modern decrypt of a copy of a blob with a byte of the salt, IV,
\* ciphertext or tag changed fails with 'Decryption failed'.
C6_ModernTamperDetected ==
  enc.variant = "Encryptor" /\ DecryptedTamperedBlob =>
    last.res.err = "Decryption failed"

C6_Witness ==
  /\ enc.variant = "Encryptor"
  /\ DecryptedTamperedBlob
  /\ Len(plain) = 16
  /\ last.res.cause = "Unsupported state or unable to authenticate data"

\* C7 as stated: decrypt of a blob on an instance of another variant built
\* with the same password always fails.
C7_OtherVariantAlwaysFails ==
  DecryptedByOtherVariant => last.res.err # ""

\* C7 as amended: decrypt of a blob on a Modern instance of the same
\* password always fails with 'Decryption failed'; on a Legacy or Strong
\* instance it fails with 'Decryption failed' or returns a string that is
\* not the plaintext.
C7_OtherVariantNeverPlaintext ==
  DecryptedByOtherVariant =>
    \/ last.res.err = "Decryption failed"
    \/ /\ last.self.variant # "Encryptor"
       /\ last.res.err = ""
       /\ last.res.val # plain

C7_Witness ==
  /\ DecryptedByOtherVariant
  /\ last.self.variant # "Encryptor"
  /\ last.res.err = ""
  /\ last.res.val # plain

\* C8: an empty password, plaintext or encoded value is refused with its
\* own message, before any library call is made, and the refusal of decrypt
\* is not wrapped in 'Decryption failed'.
C8_EmptyArgumentsRefused ==
  /\ last.op = "new" /\ last.arg = <<>> =>
       last.res.err = "Password cannot be empty" /\ enc = NoInstance
  /\ last.op = "encrypt" /\ last.arg = <<>> =>
       /\ last.res.err = "Plaintext cannot be empty"
       /\ last.res.calls = <<>>
  /\ last.op = "decrypt" /\ last.arg = <<>> =>
       /\ last.res.err = "Encoded value cannot be empty"
       /\ last.res.cause = ""
       /\ last.res.calls = <<>>

C8_Witness ==
  /\ last.op = "decrypt"
  /\ last.self.variant = "JasyptStrongEncryptor"
  /\ last.arg = <<>>
  /\ last.res.err = "Encoded value cannot be empty"

\* The decoded blob is too short for the variant of self, or what follows
\* its salt is not whole blocks.
Malformed(self, encoded) ==
  LET n == Len(Base64Decode(encoded))
  IN  IF self.variant = "JasyptEncryptor"
        THEN n < 16 \/ (n - 8) % 8 # 0
      ELSE IF self.variant = "JasyptStrongEncryptor"
        THEN n < self.saltSize + 16 \/ (n - self.saltSize) % 16 # 0
      ELSE n < self.saltSize + 12 + 16

\* C9: Legacy and Strong decrypt fail on every malformed blob, and have
\* then made no library call but the Base64 decoding.
C9_MalformedRejectedBeforeDerivation ==
  /\ last.op = "decrypt"
  /\ last.arg # <<>>
  /\ last.self.variant \in {"JasyptEncryptor", "JasyptStrongEncryptor"}
  /\ Malformed(last.self, last.arg)
  => /\ last.res.err = "Decryption failed"
     /\ last.res.calls = <<"base64">>

C9_Witness ==
  /\ last.op = "decrypt"
  /\ last.self.variant = "JasyptStrongEncryptor"
  /\ last.self.saltSize = 8
  /\ Len(Base64Decode(last.arg)) = 32
  /\ last.res.cause = "Invalid data"

\* C10: decrypt of a malformed blob fails with an error that is not the
\* 'Decryption failed' error of a padding or tag failure.
C10_InvalidFormatDistinct ==
  last.op = "decrypt" /\ last.arg # <<>> /\ Malformed(last.self, last.arg) =>
    /\ last.res.err # ""
    /\ last.res.err # "Decryption failed"

\* The last call was encrypt on enc and returned a blob.
EncryptedOn(variants) ==
  /\ last.op = "encrypt"
  /\ last.self = enc
  /\ enc.variant \in variants
  /\ last.res.err = ""

\* The bytes of the blob the last call returned.
LastBytes == Base64Decode(last.res.val)

\* The digest the Legacy derivation ends with on self for the salt.
LegacyDigest(self, salt) ==
  LET d == Jasypt_deriveKeyAndIv(self, salt) IN d.key \o d.iv

\* C11: the Legacy derivation with n >= 1 iterations applies the digest n
\* times, first to the UTF-8 bytes of the password followed by the salt and
\* then to the digest before it (one application for n = 1, two for n = 2,
\* and for n > 1 one more than the derivation with n - 1 iterations); the
\* key is bytes 0..7 and the IV bytes 8..15 of the last digest.
C11_LegacyDerivation ==
  /\ last.op = "deriveKeyAndIv"
  /\ last.self.variant = "JasyptEncryptor"
  /\ last.self.iterations >= 1
  => LET n    == last.self.iterations
         key  == last.res.val[1]
         iv   == last.res.val[2]
         data == Utf8Encode(last.self.password) \o last.arg
     IN  /\ last.res.err = ""
         /\ Len(key) = 8
         /\ Len(iv) = 8
         /\ n = 1 => key \o iv = md5(data)
         /\ n = 2 => key \o iv = md5(md5(data))
         /\ n > 1 =>
              key \o iv =
                md5(LegacyDigest([last.self EXCEPT !.iterations = n - 1],
                                 last.arg))

C11_Witness ==
  /\ last.op = "deriveKeyAndIv"
  /\ last.self.variant = "JasyptEncryptor"
  /\ last.self.iterations = 1000
  /\ last.self.password = <<97, 233>>
  /\ Len(last.arg) = 8
  /\ Len(last.res.val[1]) = 8

\* C12: the Strong derivation makes one PBKDF2 call for 48 bytes, the key is
\* the first 32 and the IV the other 16; a blob holds the salt and the
\* ciphertext under that key and IV and nothing else, and decrypt returns
\* what the ciphertext deciphers to under the key and IV derived again from
\* the first saltSize bytes of the blob.
C12_StrongDerivation ==
  /\ /\ last.op = "deriveKeyAndIv"
     /\ last.self.variant = "JasyptStrongEncryptor"
     /\ last.res.err = ""
     => LET key     == last.res.val[1]
            iv      == last.res.val[2]
            derived == pbkdf2Sync(last.self.password, last.arg,
                                  last.self.iterations, 48)
        IN  /\ last.res.calls = <<"pbkdf2Sync">>
            /\ Len(key) = 32
            /\ Len(iv) = 16
            /\ key \o iv = derived.out
  /\ EncryptedOn({"JasyptStrongEncryptor"})
     => LET salt == SubSeq(LastBytes, 1, enc.saltSize)
            rest == SubSeq(LastBytes, enc.saltSize + 1, Len(LastBytes))
            d    == deriveKeyAndIv(enc, salt).val
        IN  /\ \E r \in used : salt = randomBytes(enc.saltSize, 2 * r).out
            /\ rest = CbcEncrypt(16, d[1], d[2], Utf8Encode(plain))
  /\ DecryptedBlobOn(enc) /\ enc.variant = "JasyptStrongEncryptor"
     => LET bytes == Base64Decode(last.arg)
            salt  == SubSeq(bytes, 1, enc.saltSize)
            rest  == SubSeq(bytes, enc.saltSize + 1, Len(bytes))
            d     == deriveKeyAndIv(enc, salt).val
        IN  Returns(last.res, Utf8Decode(CbcDecrypt(16, d[1], d[2], rest).out))

C12_Witness ==
  /\ DecryptedBlobOn(enc)
  /\ enc.variant = "JasyptStrongEncryptor"
  /\ enc.saltSize = 8
  /\ Len(Base64Decode(last.arg)) = 8 + 32
  /\ Returns(last.res, plain)

\* C13: a Modern blob is the Base64 text of the salt (saltSize bytes), the
\* IV (12 bytes), the ciphertext (as many bytes as the UTF-8 plaintext) and
\* the tag (16 bytes) in that order, so of saltSize + 12 + n + 16 bytes, and
\* the offsets decrypt slices at give back these four segments.
C13_ModernLayout ==
  EncryptedOn({"Encryptor"}) =>
    LET s     == enc.saltSize
        data  == Utf8Encode(plain)
        total == Len(LastBytes)
        salt  == subarray(LastBytes, 0, s)
        iv    == subarray(LastBytes, s, s + 12)
        tag   == subarray(LastBytes, total - 16, total)
        ct    == subarray(LastBytes, s + 12, total - 16)
        key   == Encryptor_deriveKey(enc, salt).out
    IN  /\ total = s + 12 + Len(data) + 16
        /\ LastBytes = salt \o iv \o ct \o tag
        /\ \E r \in used :
             /\ salt = randomBytes(s, 2 * r).out
             /\ iv = randomBytes(12, 2 * r + 1).out
        /\ ct = GcmEncrypt(key, iv, data)
        /\ tag = getAuthTag(key, iv, ct)

C13_Witness ==
  /\ EncryptedOn({"Encryptor"})
  /\ enc.saltSize = 16
  /\ plain = <<233, 0, 8364>>
  /\ Len(LastBytes) = 16 + 12 + 6 + 16

\* C14: a Legacy or Strong blob is the salt followed by the ciphertext and
\* nothing else; for a plaintext of n UTF-8 bytes and block size B (8 for
\* Legacy, 16 for Strong) the ciphertext has B * (n \div B + 1) bytes, so a
\* full block more when n is a multiple of B, and the blob passes the
\* structural checks of decrypt of its variant.
C14_BlockLayout ==
  EncryptedOn({"JasyptEncryptor", "JasyptStrongEncryptor"}) =>
    LET B == IF enc.variant = "JasyptEncryptor" THEN 8 ELSE 16
        n == Len(Utf8Encode(plain))
        c == Len(LastBytes) - enc.saltSize
    IN  /\ c = B * ((n \div B) + 1)
        /\ c > 0
        /\ c % B = 0
        /\ \E r \in used :
             SubSeq(LastBytes, 1, enc.saltSize) =
               randomBytes(enc.saltSize, 2 * r).out
        /\ ~Malformed(enc, last.res.val)

C14_Witness ==
  /\ EncryptedOn({"JasyptStrongEncryptor"})
  /\ enc.saltSize = 16
  /\ Len(Utf8Encode(plain)) = 16
  /\ Len(LastBytes) = 16 + 32

\* The last call was decryptPrefixed, made on self with a value that
\* encryptWithPrefix returned.
DecryptedFramedOn(self) ==
  /\ last.op = "decryptPrefixed"
  /\ last.self = self
  /\ \E k \in 1..Len(blobs) : last.arg = blobs[k]

\* The last call was encryptWithPrefix on a non-empty plaintext; it
\* returned 'ENC(', a blob that encrypt can return for that plaintext, ')'.
FramedBlobReturned ==
  /\ last.res.err = ""
  /\ \E r \in 0..(MaxEntropy - 1) :
       /\ encrypt(enc, last.arg, r).err = ""
       /\ last.res.val =
            <<69, 78, 67, 40>> \o encrypt(enc, last.arg, r).val \o <<41>>

Framed(v, i, j) ==
  /\ i + 4 <= j
  /\ j <= Len(v)
  /\ SubSeq(v, i, i + 3) = <<69, 78, 67, 40>>
  /\ v[j] = 41
  /\ \A k \in 1..Len(v) : k < i \/ k > j => v[k] \in WhiteSpace

IsFramed(v) == \E i, j \in 1..Len(v) : Framed(v, i, j)

\* C16: decryptPrefixed of a value that is not, inside white space, 'ENC('
\* ... ')' raises the invalid-format error and makes no call; of any other
\* value its outcome is the outcome of decrypt on the characters between
\* that 'ENC(' and that ')'.
C16_DecryptPrefixedOutcome ==
  last.op = "decryptPrefixed" =>
    IF IsFramed(last.arg)
      THEN \A i, j \in 1..Len(last.arg) :
             Framed(last.arg, i, j) =>
               last.res = decrypt(last.self, SubSeq(last.arg, i + 4, j - 1))
    ELSE /\ last.res.err = "Invalid encrypted format, expected ENC(...)"
         /\ last.res.cause = ""
         /\ last.res.calls = <<>>

C16_Witness ==
  /\ last.op = "decryptPrefixed"
  /\ blobs # <<>>
  /\ last.arg = <<32>> \o blobs[1] \o <<10>>
  /\ plain = <<233, 0, 8364>>
  /\ Returns(last.res, plain)

\* C17: isEncrypted raises nothing and returns true exactly for a non-empty
\* string that is, inside white space, 'ENC(' ... ')'; so false for null,
\* undefined, '', 'plaintext' and 'ENC(missing', and true for 'ENC(abc123)',
\* 'ENC()' and '  ENC(value)  '.
C17_IsEncrypted ==
  last.op = "isEncrypted" =>
    /\ last.res.err = ""
    /\ last.res.val =
         (/\ last.arg.type = "string"
          /\ last.arg.str # <<>>
          /\ IsFramed(last.arg.str))
    /\ last.arg \in {Null, Undefined, Str(<<>>), Str(TextPlain),
                     Str(TextMissing)} => last.res.val = FALSE
    /\ last.arg \in {Str(TextAbc), Str(EmptyItem), Str(TextValue)} =>
         last.res.val = TRUE

C17_Witness ==
  /\ last.op = "isEncrypted"
  /\ last.arg = Str(TextValue)
  /\ last.res.val = TRUE

\* The occurrences in input of 'ENC(', one or more characters other than
\* ')', and ')': the pairs of their first and last position.
Occurrences(input) ==
  UNION {{<<k, e>> :
            e \in {e \in (k + 5)..Len(input) :
                     /\ input[e] = 41
                     /\ \A m \in (k + 4)..(e - 1) : input[m] # 41}} :
          k \in {k \in 1..Len(input) :
                   /\ k + 3 <= Len(input)
                   /\ SubSeq(input, k, k + 3) = <<69, 78, 67, 40>>}}

\* The occurrences a scan from left to right finds: those that do not start
\* inside an occurrence found before them.
Scanned(input) ==
  CHOOSE M \in SUBSET Occurrences(input) :
    \A o \in Occurrences(input) :
      o \in M <=> ~\E q \in M : q[1] < o[1] /\ o[1] <= q[2]

RECURSIVE Spliced(_, _, _, _)
\* input from position i on, with each occurrence of M replaced by what
\* decrypt on self returns for its content, when decrypt returns.
Spliced(self, input, M, i) ==
  LET rest == {o \in M : o[1] >= i} IN
  IF rest = {} THEN SubSeq(input, i, Len(input))
  ELSE LET o == CHOOSE o \in rest : \A q \in rest : o[1] <= q[1]
           d == decrypt(self, SubSeq(input, o[1] + 4, o[2] - 1))
       IN  SubSeq(input, i, o[1] - 1)
             \o (IF d.err = "" THEN d.val ELSE SubSeq(input, o[1], o[2]))
             \o Spliced(self, input, M, o[2] + 1)

\* C18: decryptAllInString returns the input with every occurrence that the
\* scan from left to right finds, and that decrypts, replaced by what it
\* decrypts to, and with all other characters as they were; so two framed
\* values of enc inside other text are both replaced by the plaintext, and
\* an input without an occurrence is returned as it is.
C18_DecryptAllInString ==
  last.op = "decryptAllInString" =>
    /\ last.res.err = ""
    /\ last.res.val = Spliced(last.self, last.arg, Scanned(last.arg), 1)
    /\ Occurrences(last.arg) = {} => last.res.val = last.arg
    /\ /\ Len(blobs) > 1
       /\ last.arg = <<100, 98, 61>> \o blobs[1] \o <<59>>
                       \o blobs[Len(blobs)] \o <<10>>
       /\ WellFormed(plain)
       => last.res.val = <<100, 98, 61>> \o plain \o <<59>> \o plain \o <<10>>

C18_Witness ==
  /\ last.op = "decryptAllInString"
  /\ enc.variant = "Encryptor"
  /\ Len(blobs) > 1
  /\ plain = <<233, 0, 8364>>
  /\ last.res.val = <<100, 98, 61>> \o plain \o <<59>> \o plain \o <<10>>

\* C19: in the object decryptMap returns, the value of a key is the
\* decrypted plaintext when isEncrypted holds of the value given and
\* decryptPrefixed of it returns, and it is the value given exactly when
\* isEncrypted does not hold of the value given.
C19_DecryptMapEntries ==
  last.op = "decryptMap" =>
    \A n \in 1..Len(last.arg) :
      LET k == last.arg[n][1]
          v == last.arg[n][2]
          d == decryptPrefixed(last.self, v)
      IN  /\ isEncrypted(Str(v)) /\ d.err = "" =>
               k \in DOMAIN last.res.val /\ last.res.val[k] = d.val
          /\ (k \in DOMAIN last.res.val /\ last.res.val[k] = v)
               <=> ~isEncrypted(Str(v))

\* C20: decryptAllInString and decryptMap raise nothing; a framed value
\* that fails to decrypt (framed with another password, no Base64 text, too
\* short, 'ENC()') is in the output as it was given, and the framed value
\* of enc next to it is replaced by the plaintext.
C20_BatchLenient ==
  /\ last.op \in {"decryptAllInString", "decryptMap"} => last.res.err = ""
  /\ last.op = "decryptAllInString" /\ blobs # <<>> =>
       \A bad \in BadItems :
         /\ decryptPrefixed(last.self, bad).err # ""
         /\ last.arg = bad \o <<59>> \o blobs[1]
         /\ WellFormed(plain)
         => last.res.val = bad \o <<59>> \o plain
  /\ last.op = "decryptMap" =>
       \A n \in 1..Len(last.arg) :
         LET k == last.arg[n][1]
             v == last.arg[n][2]
         IN  /\ isEncrypted(Str(v)) /\ decryptPrefixed(last.self, v).err # ""
               => k \in DOMAIN last.res.val /\ last.res.val[k] = v
             /\ (\E b \in 1..Len(blobs) : v = blobs[b]) /\ WellFormed(plain)
               => k \in DOMAIN last.res.val /\ last.res.val[k] = plain

\* The Legacy instance with the password of self and one iteration.
WithOneIteration(self) ==
  New("JasyptEncryptor", self.password, [iterations |-> 1]).self

\* C23: the Legacy constructor refuses nothing but the empty password, so an
\* iteration count n <= 1 (0 and negative counts included) is accepted; for
\* such an n the derivation applies the digest exactly once, to the UTF-8
\* bytes of the password followed by the salt, and an instance with n <= 1
\* (n = 0 in particular) returns from encrypt and from decrypt exactly what
\* the instance with the same password and 1 iteration returns.
C23_LegacyIterationsAtMostOne ==
  /\ last.op = "new" /\ last.res.err # ""
       => last.arg = <<>> /\ last.res.err = "Password cannot be empty"
  /\ /\ last.op \in {"deriveKeyAndIv", "encrypt", "decrypt"}
     /\ last.self.variant = "JasyptEncryptor"
     /\ last.self.iterations <= 1
     => LET one == WithOneIteration(last.self) IN
        /\ last.op = "deriveKeyAndIv" =>
             /\ last.res.err = ""
             /\ last.res.val[1] \o last.res.val[2]
                  = md5(Utf8Encode(last.self.password) \o last.arg)
             /\ Len(last.res.val[1]) = 8
        /\ last.op = "encrypt" /\ last.res.calls # <<>> =>
             \E r \in used : last.res = encrypt(one, last.arg, r)
        /\ last.op = "encrypt" /\ last.res.calls = <<>> =>
             last.res = encrypt(one, last.arg, 0)
        /\ last.op = "decrypt" => last.res = decrypt(one, last.arg)

C23_Witness ==
  /\ last.op = "decrypt"
  /\ last.self = enc
  /\ enc.variant = "JasyptEncryptor"
  /\ enc.iterations = 0
  /\ last.arg \in {blobs[k] : k \in 1..Len(blobs)}
  /\ last.res.err = ""
  /\ last.res.val = plain
  /\ decrypt(WithOneIteration(enc), last.arg).val = plain

\* The last call was decrypt on the authenticated variant with a text that
\* decodes to fewer than saltSize + 12 + 16 bytes.
DecryptedShortBlob ==
  /\ last.op = "decrypt"
  /\ last.self.variant = "Encryptor"
  /\ last.arg # <<>>
  /\ Len(Base64Decode(last.arg)) < last.self.saltSize + 12 + 16

\* The ciphertext slice decrypt takes from the decoded argument of the last
\* call.
CiphertextSlice ==
  LET combined == Base64Decode(last.arg)
  IN  subarray(combined, last.self.saltSize + 12, Len(combined) - 16)

\* C24 as stated: for every decoded blob shorter than saltSize + 12 + 16
\* bytes the ciphertext slice is empty and decrypt on the authenticated
\* variant fails with 'Decryption failed', returning no string.
C24_ShortBlobEmptyCiphertext ==
  DecryptedShortBlob =>
    /\ last.res.err = "Decryption failed"
    /\ last.res.val = <<>>
    /\ CiphertextSlice = <<>>

\* C24 amended: for every decoded blob shorter than saltSize + 12 + 16 bytes
\* decrypt on the authenticated variant fails with 'Decryption failed' and
\* returns no string; the ciphertext slice is empty unless the blob has 15
\* bytes and saltSize is at most 1, where the negative end index
\* length - 16 = -1 leaves the slice the bytes from saltSize + 12 to 13.
C24_ShortBlobFails ==
  DecryptedShortBlob =>
    /\ last.res.err = "Decryption failed"
    /\ last.res.val = <<>>
    /\ \/ CiphertextSlice = <<>>
       \/ /\ Len(Base64Decode(last.arg)) = 15
          /\ last.self.saltSize <= 1
          /\ CiphertextSlice
               = SubSeq(Base64Decode(last.arg), last.self.saltSize + 13, 14)

\* A blob one byte short of the least length, on which only the tag check
\* fails.
C24_Witness ==
  /\ DecryptedShortBlob
  /\ last.self.saltSize = 16
  /\ Len(Base64Decode(last.arg)) = 43
  /\ last.res.err = "Decryption failed"
  /\ last.res.cause = "Unsupported state or unable to authenticate data"

\* C27: isEncrypted and decryptPrefixed agree on the format of every string
\* v: decryptPrefixed(v) raises the invalid-format error exactly when
\* isEncrypted(v) is false; 'ENC()' satisfies isEncrypted, passes the format
\* check, and decryptPrefixed('ENC()') fails with the empty-encoded-value
\* error of decrypt.
C27_FormatAgreement ==
  /\ isEncrypted(Str(EmptyItem))
  /\ last.op = "decryptPrefixed" =>
       /\ last.res.err = "Invalid encrypted format, expected ENC(...)"
            <=> ~isEncrypted(Str(last.arg))
       /\ last.arg = EmptyItem =>
            last.res.err = "Encoded value cannot be empty"

C27_Witness ==
  /\ last.op = "decryptPrefixed"
  /\ last.arg = EmptyItem
  /\ isEncrypted(Str(last.arg))
  /\ last.res.err = "Encoded value cannot be empty"
  /\ last.res.calls = <<>>

\* The keys of the map Object.entries lists.
KeysOf(entries) == {entries[n][1] : n \in 1..Len(entries)}

\* C26: decryptMap returns a new map whose key set is exactly the key set of
\* the map it was given, and leaves that map as it was: every entry of the
\* input still holds its original value, so a value that is not marked
\* encrypted is found unchanged under its key both in the input and in the
\* result.
C26_DecryptMapKeySet ==
  last.op = "decryptMap" =>
    /\ last.res.err = ""
    /\ DOMAIN last.res.val = KeysOf(last.arg)
    /\ \A n \in 1..Len(last.arg) :
         ~isEncrypted(Str(last.arg[n][2])) =>
           /\ last.arg[n][1] \in DOMAIN last.res.val
           /\ last.res.val[last.arg[n][1]] = last.arg[n][2]

\* The last call was decryptAllInString on 'db=' + v + ';' for a framed value
\* v whose plaintext is the first framed value of enc.
DecryptedNested ==
  /\ last.op = "decryptAllInString"
  /\ last.self = enc
  /\ Len(blobs) = 1
  /\ last.arg = TextDb \o NestedItem \o TextSemi

\* C25: decryptAllInString makes one pass over its input: the result is the
\* input with each occurrence the scan finds replaced once, and what is put
\* in is not scanned again, so that a plaintext which is itself a framed
\* value is found as it is in the result; on such an input a second
\* application returns something else than the first (the operation is not
\* idempotent).
C25_SinglePass ==
  /\ last.op = "decryptAllInString" =>
       last.res.val = Spliced(last.self, last.arg, Scanned(last.arg), 1)
  /\ DecryptedNested =>
       /\ last.res.val = TextDb \o blobs[1] \o TextSemi
       /\ Scanned(last.res.val) # {}
       /\ decryptAllInString(enc, last.res.val).val # last.res.val
       /\ WellFormed(plain) =>
            decryptAllInString(enc, last.res.val).val
              = TextDb \o plain \o TextSemi

C25_Witness ==
  /\ DecryptedNested
  /\ enc.variant = "JasyptStrongEncryptor"
  /\ plain = <<233, 0, 8364>>
  /\ last.res.val = TextDb \o blobs[1] \o TextSemi
  /\ decryptAllInString(enc, last.res.val).val = TextDb \o plain \o TextSemi

\* The position of the first '=' of a line, 0 when it has none.
FirstEq(t) ==
  IF \A i \in 1..Len(t) : t[i] # 61 THEN 0
  ELSE CHOOSE i \in 1..Len(t) : t[i] = 61 /\ \A j \in 1..(i - 1) : t[j] # 61

\* The text after the first '=' of a line, without one quote character at
\* its start and one at its end, when they are there.
QuotedValue(t) ==
  LET v == SubSeq(t, FirstEq(t) + 1, Len(t))
      a == IF v # <<>> /\ Head(v) \in {34, 39} THEN Tail(v) ELSE v
  IN  IF a # <<>> /\ a[Len(a)] \in {34, 39}
        THEN SubSeq(a, 1, Len(a) - 1) ELSE a

\* The lines encrypt-file has to leave as they are: comments, lines without
\* '=', and KEY=VALUE lines whose value is empty or marked encrypted.
KeptLine(line) ==
  LET t == trim(line) IN
  \/ FirstEq(t) = 0
  \/ (t # <<>> /\ t[1] = 35)
  \/ QuotedValue(t) = <<>>
  \/ isEncrypted(Str(QuotedValue(t)))

\* The last call was a run of encrypt-file that got past its checks.
FileWasEncrypted == last.op = "encrypt-file" /\ last.self # NoInstance

\* C28: encrypt-file writes as many lines as it reads; a comment, a line
\* without '=', and a KEY=VALUE line whose value without its quotes is empty
\* or satisfies isEncrypted is written unchanged; every other KEY=VALUE line
\* is written as KEY= followed by a framed value that decrypts to the value;
\* encrypt-file applied to what it wrote encrypts nothing and writes the
\* same text.
C28_EncryptFileOnce ==
  FileWasEncrypted =>
    LET lines == split(last.arg)
        out   == split(last.res.val)
    IN  /\ last.res.err = ""
        /\ Len(out) = Len(lines)
        /\ \A i \in 1..Len(lines) :
             LET t == trim(lines[i]) IN
             IF KeptLine(lines[i]) THEN out[i] = lines[i]
             ELSE \E f \in {SubSeq(out[i], FirstEq(t) + 1, Len(out[i]))} :
                    /\ out[i] = SubSeq(t, 1, FirstEq(t)) \o f
                    /\ isEncrypted(Str(f))
                    /\ decryptPrefixed(last.self, f).val = QuotedValue(t)
        /\ Len(last.res.calls)
             = Cardinality({i \in 1..Len(lines) : ~KeptLine(lines[i])})
        /\ cmdEncryptFile(last.self, last.res.val, Len(last.res.calls))
             = Return(last.res.val, <<>>)

\* 'K=v' and 'K=ENC(abc123)': the first line is encrypted, the second kept.
C28_Witness ==
  /\ FileWasEncrypted
  /\ last.arg = <<75, 61, 118>> \o TextLf \o <<75, 61>> \o TextAbc
  /\ Len(last.res.calls) = 1
  /\ split(last.res.val)[2] = <<75, 61>> \o TextAbc
  /\ split(last.res.val)[1] # <<75, 61, 118>>
  /\ cmdEncryptFile(last.self, last.res.val, 1).val = last.res.val

\* The lines of a file that loadEnvFile reads as KEY=VALUE.
EnvEntryLines(lines) ==
  {i \in 1..Len(lines) :
     LET t == trim(lines[i])
     IN  t # <<>> /\ t[1] # 35 /\ FirstEq(t) # 0}

\* The key and the value of a KEY=VALUE line.
EnvKey(line) == LET t == trim(line) IN trim(SubSeq(t, 1, FirstEq(t) - 1))

EnvValue(line) ==
  LET t == trim(line) IN Unquote(trim(SubSeq(t, FirstEq(t) + 1, Len(t))))

\* What a loader whose encryptor is self has to make of a string: the
\* plaintext when the string is marked encrypted and decrypts, the string
\* itself otherwise.
Lenient(self, v) ==
  IF isEncrypted(Str(v)) /\ decryptPrefixed(self, v).err = ""
    THEN decryptPrefixed(self, v).val
  ELSE v

RECURSIVE Loaded(_, _, _)
\* out is obj with every string leaf replaced by what the loader has to make
\* of it, under the same keys and at the same positions.
Loaded(self, obj, out) ==
  IF obj.type = "string" THEN out = Str(Lenient(self, obj.str))
  ELSE IF obj.type = "array"
    THEN /\ out.type = "array"
         /\ Len(out.items) = Len(obj.items)
         /\ \A i \in 1..Len(obj.items) :
              Loaded(self, obj.items[i], out.items[i])
  ELSE IF obj.type = "object"
    THEN /\ out.type = "object"
         /\ DOMAIN out.own = KeysOf(obj.entries)
         /\ \A n \in 1..Len(obj.entries) :
              Loaded(self, obj.entries[n][2], out.own[obj.entries[n][1]])
  ELSE out = obj

\* C22: loadEnvFile and decryptRecursive never fail because a value does
\* not decrypt: the value of every KEY=VALUE line (the last one of its key)
\* and every string leaf whose decryptPrefixed fails is found in the result
\* as the framed string it was, under its key, and the other lines and
\* leaves are loaded as if it had not been there.
C22_LoadersKeepFailedValues ==
  /\ last.op = "loadEnvFile" =>
       LET lines == split(last.arg) IN
       /\ last.res.err = ""
       /\ \A i \in EnvEntryLines(lines) :
            (\A j \in EnvEntryLines(lines) :
               j > i => EnvKey(lines[j]) # EnvKey(lines[i]))
            => /\ EnvKey(lines[i]) \in DOMAIN last.res.val
               /\ last.res.val[EnvKey(lines[i])]
                    = Lenient(last.self, EnvValue(lines[i]))
  /\ last.op = "loadJson" =>
       /\ last.res.err = ""
       /\ Loaded(last.self, last.arg, last.res.val)

\* The last call returned what the same call returns on an instance with
\* the fields its receiver was built with, the shared pattern at rest, and
\* no call before it.
ReturnedAsInIsolation ==
  /\ last.op \in {"encrypt", "decrypt", "decryptPrefixed",
                  "decryptAllInString", "decryptMap"}
       => last.self \in Receivers
  /\ last.op = "encrypt" /\ last.res.calls # <<>> =>
       \E r \in used : last.res = encrypt(last.self, last.arg, r)
  /\ last.op = "decrypt" => last.res = decrypt(last.self, last.arg)
  /\ last.op = "decryptPrefixed" =>
       last.res = decryptPrefixed(last.self, last.arg)
  /\ last.op = "decryptAllInString" =>
       last.res = decryptAllInString(last.self, last.arg)
  /\ last.op = "decryptMap" => last.res = decryptMap(last.self, last.arg)

\* No step changes a field of an instance that is built.
FieldsKept ==
  /\ enc # NoInstance => enc' = enc
  /\ peer # NoInstance => peer' = peer

\* C21: once an instance is built no operation changes its fields, and in
\* every sequence of encrypt, decrypt, decryptPrefixed, decryptAllInString
\* and decryptMap calls on two instances of one process, which share
\* ENC_PATTERN, each call returns what it returns when it is the only call
\* made, whatever state the calls before it left the pattern in.
C21_SafeInterleaving == []ReturnedAsInIsolation /\ [][FieldsKept]_vars

\* A call on the second instance, after calls on the first, that decrypts
\* what the second instance encrypted.
C21_Witness ==
  /\ last.op = "decryptAllInString"
  /\ peer # NoInstance
  /\ peer # enc
  /\ last.self = peer
  /\ Len(blobs) = 2
  /\ decrypt(enc, blobs[2]).val = plain
  /\ decrypt(peer, blobs[1]).val = plain
  /\ last.arg = FramedBlob(2) \o FramedBlob(1)
  /\ last.res.val = FramedBlob(2) \o plain

====
